---------------------------- MODULE Spec2Model ----------------------------
(***************************************************************************)
(* VRC World Opener: the content script (detection-and-injection pipeline) *)
(* and the world-search collaborator of the background service worker.     *)
(*                                                                         *)
(* Strings are sequences of code points, one element per code point.  An   *)
(* ASCII character is written as itself; any other code point is written   *)
(* by its number ("U+7D39"); a lone surrogate code unit is "U+D83C".       *)
(***************************************************************************)
EXTENDS Integers, Sequences, FiniteSets, TLC

(***************************************************************************)
(* Characters                                                              *)
(***************************************************************************)
Upper == <<"A","B","C","D","E","F","G","H","I","J","K","L","M",
           "N","O","P","Q","R","S","T","U","V","W","X","Y","Z">>
Lower == <<"a","b","c","d","e","f","g","h","i","j","k","l","m",
           "n","o","p","q","r","s","t","u","v","w","x","y","z">>

\* String.prototype.toLowerCase, one code point
LowerChar(c) ==
    IF \E i \in 1..Len(Upper) : Upper[i] = c
    THEN Lower[CHOOSE i \in 1..Len(Upper) : Upper[i] = c]
    ELSE c

\* String.prototype.toLowerCase
toLowerCase(s) == [i \in 1..Len(s) |-> LowerChar(s[i])]

\* the characters of the regular expression class \s that the texts use
\* (U+3000 is the ideographic space)
IsSpace(c) == c \in {" ", "\n", "\r", "\t", "U+3000"}

\* the line terminators: what "." does not match and what "^" follows under /m
IsLineTerminator(c) == c \in {"\n", "\r"}

\* the code points of [\u{1F300}-\u{1F9FF}] that the texts use
Pictographs == {"U+1F310", "U+1F30D", "U+1F30E", "U+1F30F", "U+1F5FA", "U+1F3E0"}

\* what [\uD800-\uDFFF] matches in the texts: a lone surrogate code unit, and
\* both code units of a code point above U+FFFF
LoneSurrogates == {"U+D83C", "U+DF0D"}
OtherAstral    == {"U+1FAE0"}
Surrogates     == LoneSurrogates \cup Pictographs \cup OtherAstral

\* s.substring(a - 1, b - 1): the elements a .. b-1 of s
Sub(s, a, b) == IF b <= a THEN <<>> ELSE SubSeq(s, a, b - 1)

\* String.prototype.includes
includes(s, t) ==
    \E i \in 1..(Len(s) - Len(t) + 1) : Sub(s, i, i + Len(t)) = t

\* String.prototype.trim
RECURSIVE TrimLeft(_)
TrimLeft(s) == IF s # <<>> /\ IsSpace(Head(s)) THEN TrimLeft(Tail(s)) ELSE s
RECURSIVE TrimRight(_)
TrimRight(s) ==
    IF s # <<>> /\ IsSpace(s[Len(s)]) THEN TrimRight(Sub(s, 1, Len(s))) ELSE s
trim(s) == TrimRight(TrimLeft(s))

\* s.replace(/[...]/g, ''): drop every code point that is in the class
RemoveAll(s, class) == SelectSeq(s, LAMBDA c : c \notin class)

(***************************************************************************)
(* Regular expressions, with the backtracking order of JavaScript.         *)
(* A pattern is a tree of nodes; Match gives, for a start position, every  *)
(* way the node can match, in the order the engine tries them, as          *)
(* <<end position, capture start, capture end>>.                           *)
(***************************************************************************)
Lit(c)       == [t |-> "in", s |-> {c}, sp |-> FALSE]
In(S)        == [t |-> "in", s |-> S, sp |-> FALSE]
InOrSpace(S) == [t |-> "in", s |-> S, sp |-> TRUE]
Space        == [t |-> "in", s |-> {}, sp |-> TRUE]
Dot          == [t |-> "dot"]
Bol          == [t |-> "bol"]
Eol          == [t |-> "eol"]
Word(s)      == [t |-> "word", w |-> s]
Cat(xs)      == [t |-> "seq", xs |-> xs]
Alt(xs)      == [t |-> "alt", xs |-> xs]
\* x*, x+, x+? and x{n} for a node x that matches one character
Star(x)      == [t |-> "rep", x |-> x, min |-> 0, max |-> -1, lazy |-> FALSE]
Plus(x)      == [t |-> "rep", x |-> x, min |-> 1, max |-> -1, lazy |-> FALSE]
LazyPlus(x)  == [t |-> "rep", x |-> x, min |-> 1, max |-> -1, lazy |-> TRUE]
Times(x, n)  == [t |-> "rep", x |-> x, min |-> n, max |-> n, lazy |-> FALSE]
Opt(x)       == [t |-> "alt", xs |-> <<x, [t |-> "seq", xs |-> <<>>]>>]
Cap(x)       == [t |-> "cap", x |-> x]

\* one character against a node that matches one character; ci is the /i flag
CharOk(c, n, ci) ==
    IF n.t = "dot" THEN ~IsLineTerminator(c)
    ELSE \/ c \in n.s
         \/ ci /\ \E d \in n.s : LowerChar(d) = LowerChar(c)
         \/ n.sp /\ IsSpace(c)

\* how many characters from position i on match the one-character node n
Run(n, txt, i, ci) ==
    LET rest == Len(txt) - i + 1
    IN  CHOOSE k \in 0..rest :
            /\ \A m \in 0..(k - 1) : CharOk(txt[i + m], n, ci)
            /\ k = rest \/ ~CharOk(txt[i + k], n, ci)

\* the word w at position i
WordAt(w, txt, i, ci) ==
    /\ i + Len(w) - 1 <= Len(txt)
    /\ \A m \in 1..Len(w) :
          \/ txt[i + m - 1] = w[m]
          \/ ci /\ LowerChar(txt[i + m - 1]) = LowerChar(w[m])

\* the results rs of a group that starts at i, with the group captured
Captured(rs, i) == [k \in 1..Len(rs) |-> <<rs[k][1], i, rs[k][1]>>]

\* a repetition that can take up to run characters takes min..most of them:
\* the fewest first when lazy, the most first when greedy
Most(n, run) == IF n.max >= 0 /\ n.max < run THEN n.max ELSE run
Repeated(n, i, cap, run) ==
    [k \in 1..(Most(n, run) - n.min + 1) |->
        <<IF n.lazy THEN i + n.min + k - 1 ELSE i + Most(n, run) - k + 1,
          cap[1], cap[2]>>]

RECURSIVE Match(_, _, _, _, _, _)
RECURSIVE MatchSeq(_, _, _, _, _, _, _)
RECURSIVE MatchAlt(_, _, _, _, _, _, _)
RECURSIVE MatchRest(_, _, _, _, _, _, _)

\* the ways node n matches txt from position i; cap is the capture so far,
\* ci the /i flag, ml the /m flag
Match(n, txt, i, cap, ci, ml) ==
    CASE n.t \in {"in", "dot"} ->
            IF i <= Len(txt) /\ CharOk(txt[i], n, ci)
            THEN << <<i + 1, cap[1], cap[2]>> >> ELSE <<>>
      [] n.t = "word" ->
            IF WordAt(n.w, txt, i, ci)
            THEN << <<i + Len(n.w), cap[1], cap[2]>> >> ELSE <<>>
      [] n.t = "bol" ->
            IF i = 1 \/ (ml /\ i > 1 /\ IsLineTerminator(txt[i - 1]))
            THEN << <<i, cap[1], cap[2]>> >> ELSE <<>>
      [] n.t = "eol" ->
            IF i = Len(txt) + 1 \/ (ml /\ i <= Len(txt) /\ IsLineTerminator(txt[i]))
            THEN << <<i, cap[1], cap[2]>> >> ELSE <<>>
      [] n.t = "seq" -> MatchSeq(n.xs, 1, txt, i, cap, ci, ml)
      [] n.t = "alt" -> MatchAlt(n.xs, 1, txt, i, cap, ci, ml)
      [] n.t = "cap" -> Captured(Match(n.x, txt, i, cap, ci, ml), i)
      [] n.t = "rep" -> Repeated(n, i, cap, Run(n.x, txt, i, ci))

\* the nodes xs[k..] one after the other
MatchSeq(xs, k, txt, i, cap, ci, ml) ==
    IF k > Len(xs) THEN << <<i, cap[1], cap[2]>> >>
    ELSE MatchRest(Match(xs[k], txt, i, cap, ci, ml), 1, xs, k + 1, txt, ci, ml)

\* for every way rs[j..] of matching a prefix, the ways the nodes xs[k..] go on
MatchRest(rs, j, xs, k, txt, ci, ml) ==
    IF j > Len(rs) THEN <<>>
    ELSE MatchSeq(xs, k, txt, rs[j][1], <<rs[j][2], rs[j][3]>>, ci, ml)
         \o MatchRest(rs, j + 1, xs, k, txt, ci, ml)

\* the alternatives xs[k..], the earlier one first
MatchAlt(xs, k, txt, i, cap, ci, ml) ==
    IF k > Len(xs) THEN <<>>
    ELSE Match(xs[k], txt, i, cap, ci, ml) \o MatchAlt(xs, k + 1, txt, i, cap, ci, ml)

NoMatch == <<0, 0, 0, 0>>

\* the first match of pattern p = [re, ci, ml] at or after position i:
\* <<start, end, capture start, capture end>>, or NoMatch
Search(p, txt, from) ==
    LET First(hits) ==
            IF hits = {} THEN 0 ELSE CHOOSE i \in hits : \A j \in hits : i <= j
        Found(i0, r) == <<i0, r[1], r[2], r[3]>>
        At(i0) ==
            IF i0 = 0 THEN NoMatch
            ELSE Found(i0, Match(p.re, txt, i0, <<0, 0>>, p.ci, p.ml)[1])
    IN  At(First({ i \in from..(Len(txt) + 1) :
                     Match(p.re, txt, i, <<0, 0>>, p.ci, p.ml) # <<>> }))

\* String.prototype.match without /g
match(txt, p) == Search(p, txt, 1)

\* s.replace(p, '') without /g: the first match removed
ReplaceFirst(s, p) ==
    LET Without(m) ==
            IF m = NoMatch THEN s ELSE Sub(s, 1, m[1]) \o Sub(s, m[2], Len(s) + 1)
    IN  Without(match(s, p))


(***************************************************************************)
(* Constants of the content script                                         *)
(***************************************************************************)
\* '#vrchat_world紹介'
TARGET_HASHTAG ==
    <<"#","v","r","c","h","a","t","_","w","o","r","l","d","U+7D39","U+4ECB">>

BUTTON_TEXT ==
    [DEFAULT |-> "DEFAULT", LOADING |-> "LOADING", SUCCESS |-> "SUCCESS",
     AUTH_REQUIRED |-> "AUTH_REQUIRED", NOT_FOUND |-> "NOT_FOUND",
     SEARCH_ONLY |-> "SEARCH_ONLY"]

\* [:：]
Colons == {":", "U+FF1A"}
\* [『「【\(（] and [』」】\)）]
OpenBrackets  == {"U+300E", "U+300C", "U+3010", "(", "U+FF08"}
CloseBrackets == {"U+300F", "U+300D", "U+3011", ")", "U+FF09"}
\* ワールド(?:名)?
WaarudoMei ==
    Cat(<<Lit("U+30EF"), Lit("U+30FC"), Lit("U+30EB"), Lit("U+30C9"),
          Opt(Lit("U+540D"))>>)
\* (?:\s*$|\s*#|\n|<)
NameEnd ==
    Alt(<<Cat(<<Star(Space), Eol>>), Cat(<<Star(Space), Lit("#")>>),
          Lit("\n"), Lit("<")>>)
\* (?:\s*$|\s*#|\r?\n|\r|<)
NameEndCr ==
    Alt(<<Cat(<<Star(Space), Eol>>), Cat(<<Star(Space), Lit("#")>>),
          Cat(<<Opt(Lit("\r")), Lit("\n")>>), Lit("\r"), Lit("<")>>)
\* (.+?)
Name == Cap(LazyPlus(Dot))

WORLD_PATTERNS == <<
    \* /World\s*[:：]\s*(.+?)(?:\s*$|\s*#|\n|<)/i
    [re |-> Cat(<<Word(<<"W","o","r","l","d">>), Star(Space), In(Colons),
                  Star(Space), Name, NameEnd>>),
     ci |-> TRUE, ml |-> FALSE],
    \* /World\s*[『「【\(（](.+?)[』」】\)）]/i
    [re |-> Cat(<<Word(<<"W","o","r","l","d">>), Star(Space), In(OpenBrackets),
                  Name, In(CloseBrackets)>>),
     ci |-> TRUE, ml |-> FALSE],
    \* /(?:🌐|🌍|🌎|🌏|🗺️)\s*(.+?)(?:\s*$|\s*#|\r?\n|\r|<)/u
    [re |-> Cat(<<Alt(<<Lit("U+1F310"), Lit("U+1F30D"), Lit("U+1F30E"),
                        Lit("U+1F30F"),
                        Cat(<<Lit("U+1F5FA"), Lit("U+FE0F")>>)>>),
                  Star(Space), Name, NameEndCr>>),
     ci |-> FALSE, ml |-> FALSE],
    \* /ワールド(?:名)?\s*[:：]\s*(.+?)(?:\s*$|\s*#|\n|<)/
    [re |-> Cat(<<WaarudoMei, Star(Space), In(Colons), Star(Space), Name,
                  NameEnd>>),
     ci |-> FALSE, ml |-> FALSE],
    \* /ワールド(?:名)?[\s　]+(.+?)(?:\s*$|\s*#|\n|<)/
    [re |-> Cat(<<WaarudoMei, Plus(InOrSpace({"U+3000"})), Name, NameEnd>>),
     ci |-> FALSE, ml |-> FALSE],
    \* /World\s*name\s*[:：]\s*(.+?)(?:\s*$|\s*#|\n|<)/i
    [re |-> Cat(<<Word(<<"W","o","r","l","d">>), Star(Space),
                  Word(<<"n","a","m","e">>), Star(Space), In(Colons),
                  Star(Space), Name, NameEnd>>),
     ci |-> TRUE, ml |-> FALSE],
    \* /^(.+?)\n+By\s/im
    [re |-> Cat(<<Bol, Name, Plus(Lit("\n")), Word(<<"B","y">>), Space>>),
     ci |-> TRUE, ml |-> TRUE],
    \* /^(.+?)\n+Author\s*[:：]?\s/im
    [re |-> Cat(<<Bol, Name, Plus(Lit("\n")),
                  Word(<<"A","u","t","h","o","r">>), Star(Space),
                  Opt(In(Colons)), Space>>),
     ci |-> TRUE, ml |-> TRUE] >>

\* the value null, which is no string
Null == <<"null">>

\* !s for a string or null
Falsy(s) == s = Null \/ s = <<>>

(***************************************************************************)
(* Text Normalizer                                                         *)
(***************************************************************************)
\* DOM nodes: a text node, an element with a tag, an alt attribute and
\* child nodes
TextNode(s)          == [nodeType |-> "TEXT", textContent |-> s]
Element(tag, alt, cs) ==
    [nodeType |-> "ELEMENT", tagName |-> tag, alt |-> alt, childNodes |-> cs]
Img(alt) == Element("IMG", alt, <<>>)
NoElement == [nodeType |-> "NONE"]

RECURSIVE traverse(_)
RECURSIVE traverseAll(_, _)
traverse(node) ==
    IF node.nodeType = "TEXT" THEN node.textContent
    ELSE IF node.nodeType = "ELEMENT"
    THEN (IF node.tagName = "IMG" /\ ~Falsy(node.alt) THEN node.alt ELSE <<>>)
         \o traverseAll(node.childNodes, 1)
    ELSE <<>>
traverseAll(cs, k) ==
    IF k > Len(cs) THEN <<>> ELSE traverse(cs[k]) \o traverseAll(cs, k + 1)

getTextWithEmoji(element) ==
    IF element = NoElement THEN <<>> ELSE traverse(element)

(***************************************************************************)
(* World Reference Extractor                                               *)
(***************************************************************************)
\* /\s*#.*$/
HashSuffix ==
    [re |-> Cat(<<Star(Space), Lit("#"), Star(Dot), Eol>>),
     ci |-> FALSE, ml |-> FALSE]
\* /[』」】\)）]+$/
BracketSuffix ==
    [re |-> Cat(<<Plus(In(CloseBrackets)), Eol>>), ci |-> FALSE, ml |-> FALSE]

\* a cleanup that only trims the capture
TrimmedOnly(raw) == trim(raw)
\* the cleanup of a raw capture
CleanName(raw) ==
    LET a == trim(raw)
        b == trim(ReplaceFirst(a, HashSuffix))
        c == trim(ReplaceFirst(b, BracketSuffix))
        d == trim(RemoveAll(c, Pictographs))
    IN  trim(RemoveAll(d, Surrogates))

RECURSIVE extractFrom(_, _)
extractFrom(text, k) ==
    IF k > Len(WORLD_PATTERNS) THEN Null
    ELSE LET Cleaned(m, worldName) ==
                 IF m # NoMatch /\ m[4] > m[3] /\ Len(worldName) > 0
                 THEN worldName
                 ELSE extractFrom(text, k + 1)
             Matched(m) == Cleaned(m, CleanName(Sub(text, m[3], m[4])))
         IN  Matched(match(text, WORLD_PATTERNS[k]))

\* an extractor that stops at the first pattern that matches
RECURSIVE firstMatchFrom(_, _)
firstMatchFrom(text, k) ==
    IF k > Len(WORLD_PATTERNS) THEN Null
    ELSE LET Cleaned(worldName) == IF Len(worldName) > 0 THEN worldName ELSE Null
             Matched(m) ==
                 IF m # NoMatch /\ m[4] > m[3]
                 THEN Cleaned(CleanName(Sub(text, m[3], m[4])))
                 ELSE firstMatchFrom(text, k + 1)
         IN  Matched(match(text, WORLD_PATTERNS[k]))
FirstMatchOnly(text) == IF Falsy(text) THEN Null ELSE firstMatchFrom(text, 1)
\* an extractor that does not try the first two patterns
LaterPatternsOnly(text) == IF Falsy(text) THEN Null ELSE extractFrom(text, 3)
extractWorldName(text) ==
    IF Falsy(text) THEN Null ELSE extractFrom(text, 1)

(***************************************************************************)
(* Identifiers in URLs                                                     *)
(***************************************************************************)
\* the length of the token after the prefix, {36}
IdTokenLen == 36
\* [a-f0-9-]
IdChars == {"a","b","c","d","e","f","0","1","2","3","4","5","6","7","8","9","-"}
\* (wrld_[a-f0-9-]{36})
WorldIdToken ==
    Cap(Cat(<<Word(<<"w","r","l","d","_">>), Times(In(IdChars), IdTokenLen)>>))
\* /vrchat\.com\/home\/world\/(wrld_[a-f0-9-]{36})/i
PathForm ==
    [re |-> Cat(<<Word(<<"v","r","c","h","a","t",".","c","o","m","/","h","o",
                         "m","e","/","w","o","r","l","d","/">>), WorldIdToken>>),
     ci |-> TRUE, ml |-> FALSE]
\* /[?&]worldId=(wrld_[a-f0-9-]{36})/i
QueryForm ==
    [re |-> Cat(<<In({"?", "&"}), Word(<<"w","o","r","l","d","I","d","=">>),
                  WorldIdToken>>),
     ci |-> TRUE, ml |-> FALSE]

\* the href of an SVG anchor: an object, which is truthy and has no match
SVGAnimatedString == <<"[object SVGAnimatedString]">>
\* url.match is not a function
TypeError == <<"TypeError">>

\* the identifier in url, Null, or TypeError when the call throws
extractWorldIdFromUrl(url) ==
    IF Falsy(url) THEN Null
    ELSE IF url = SVGAnimatedString THEN TypeError
    ELSE LET Second(m2) == IF m2 # NoMatch THEN Sub(url, m2[3], m2[4]) ELSE Null
             First(m1)  == IF m1 # NoMatch THEN Sub(url, m1[3], m1[4])
                           ELSE Second(match(url, QueryForm))
         IN  First(match(url, PathForm))

(***************************************************************************)
(* Bounds of the model                                                     *)
(***************************************************************************)
\* posts the host document can hold
NumPosts == 2
\* settings messages on their way to the content script
MaxMsgs == 1
\* settings reads of debounced scans that are under way
MaxReads == 1
\* open controls that are busy, terminal or waiting for a reset timer
MaxActive == 2
\* reset timers one control can have pending
MaxTimers == 2
\* mutation batches one debounce timer has absorbed
MaxBurst == 2

Posts     == 1..NumPosts
ButtonIds == 1..(NumPosts + MaxActive)

(***************************************************************************)
(* The posts the host document shows                                       *)
(***************************************************************************)
\* 'https://vrchat.com/home'
VRCHAT_WEB_BASE ==
    <<"h","t","t","p","s",":","/","/","v","r","c","h","a","t",".","c","o","m",
      "/","h","o","m","e">>

\* wrld_ and a UUID
SampleWorldId ==
    <<"w","r","l","d","_","1","2","3","4","5","6","7","8","-","9","0","a","b",
      "-","c","d","e","f","-","1","2","3","4","-","5","6","7","8","9","0","a",
      "b","c","d","e","f">>

\* the URL of the world page of an identifier
WorldPageUrl(id) == VRCHAT_WEB_BASE \o <<"/","w","o","r","l","d","/">> \o id

\* https://vrchat.com/home/launch?worldId=...
LaunchUrl(id) ==
    VRCHAT_WEB_BASE
    \o <<"/","l","a","u","n","c","h","?","w","o","r","l","d","I","d","=">> \o id

Anchor(href, text, title) ==
    [href |-> href, textContent |-> text, title |-> title]

\* "#VRChat_World紹介", as authors write it
HashtagAsWritten ==
    <<"#","V","R","C","h","a","t","_","W","o","r","l","d","U+7D39","U+4ECB">>

TextEl(children) == Element("DIV", Null, children)

\* a post of the host: its text container (or none), its anchors in document
\* order, and whether it has an action bar
Post(text, links, actionBar) ==
    [text |-> text, links |-> links, actionBar |-> actionBar]

WorldPark == <<"W","o","r","l","d",":"," ","P","a","r","k"," ">>

Templates == <<
    \* 1: hashtag and a name
    Post(TextEl(<<TextNode(WorldPark \o HashtagAsWritten)>>), <<>>, TRUE),
    \* 2: hashtag, a name with an emoji image in it, and a world link
    Post(TextEl(<<TextNode(<<"W","o","r","l","d",":"," ">>), Img(<<"U+1F30D">>),
                  TextNode(<<"P","a","r","k","\n">>),
                  Element("A", Null, <<TextNode(TARGET_HASHTAG)>>)>>),
         <<Anchor(<<"/","h","a","s","h","t","a","g">>, TARGET_HASHTAG, <<>>),
           Anchor(<<"h","t","t","p","s",":","/","/","t",".","c","o","/","x">>,
                  <<"v","r","c","h","a","t",".","c","o","m","/","h","o","m",
                    "e","/","w","o","r","l","d","U+2026">>,
                  WorldPageUrl(SampleWorldId))>>,
         TRUE),
    \* 3: no hashtag, but a name and a world link
    Post(TextEl(<<TextNode(WorldPark \o <<"#","V","R","C","h","a","t">>)>>),
         <<Anchor(WorldPageUrl(SampleWorldId), <<>>, <<>>)>>, TRUE),
    \* 4: hashtag and a world link, no name
    Post(TextEl(<<TextNode(HashtagAsWritten)>>),
         <<Anchor(LaunchUrl(SampleWorldId), <<>>, <<>>)>>, TRUE),
    \* 5: hashtag only
    Post(TextEl(<<TextNode(HashtagAsWritten)>>), <<>>, TRUE),
    \* 6: hashtag and a name, no action bar yet
    Post(TextEl(<<TextNode(WorldPark \o HashtagAsWritten)>>), <<>>, FALSE),
    \* 7: no text container yet
    Post(NoElement, <<>>, TRUE),
    \* 8: hashtag, a name and an SVG anchor
    Post(TextEl(<<TextNode(WorldPark \o HashtagAsWritten)>>),
         <<Anchor(SVGAnimatedString, <<>>, Null)>>, TRUE),
    \* 9: hashtag, a name and a world link, no action bar
    Post(TextEl(<<TextNode(WorldPark \o HashtagAsWritten)>>),
         <<Anchor(WorldPageUrl(SampleWorldId), <<>>, <<>>)>>, FALSE),
    \* 10: hashtag and a world link, no name and no action bar
    Post(TextEl(<<TextNode(HashtagAsWritten)>>),
         <<Anchor(LaunchUrl(SampleWorldId), <<>>, <<>>)>>, FALSE),
    \* 11: hashtag only, no action bar
    Post(TextEl(<<TextNode(HashtagAsWritten)>>), <<>>, FALSE) >>

NumTemplates == Len(Templates)

\* what the host inserts into a post it has already shown: <<from, to>>
HostInserts == { <<6, 1>>, <<7, 1>>, <<5, 4>>, <<3, 2>> }

\* the post with an SVG anchor
SvgPost == 8

\* what a slot of the feed shows: the first any of the templates with HTML
\* anchors, the others a qualifying post or a post without the hashtag
Shows(p) == IF p = 1 THEN 1..(SvgPost - 1) ELSE {1, 3}

\* a feed of qualifying posts, with a name or a world link, and posts
\* without a reference
ShowsQuiet(p) == IF p = 1 THEN {1, 4, 5} ELSE {1}

\* a feed with SVG anchors in it
ShowsSvg(p) == {1, SvgPost}

(***************************************************************************)
(* State                                                                   *)
(***************************************************************************)
VARIABLES
    post,               \* post[p]: the template the host shows as post p, 0 if none
    marked,             \* marked[p]: post p carries PROCESSED_ATTR
    group,              \* group[p]: the control groups in post p, in document order
    btn,                \* btn[b]: the open control b, or NoButton
    evals,              \* evals[p]: normalizations of post p since its marker was reset
    isExtensionEnabled, \* the three flags of the content script
    showOpenBtn,
    showSearchBtn,
    debounceTimerId,    \* "null", or the timer it names: "pending" or "fired"
    strayTimers,        \* pending debounce timers that debounceTimerId does not name
    burst,              \* mutation batches the pending debounce timer has absorbed
    observers,          \* MutationObservers observing document.body
    initRead,           \* the settings read of init
    scanReads,          \* the settings reads of processAllTweetsIfEnabled under way
    stored,             \* chrome.storage.local
    msgs,               \* messages on their way to the content script
    last,               \* what the last step did
    call                \* the last call of a function of the text pipeline

vars == <<post, marked, group, btn, evals, isExtensionEnabled, showOpenBtn,
          showSearchBtn, debounceTimerId, strayTimers, burst, observers,
          initRead, scanReads, stored, msgs, last, call>>

docVars      == <<post, marked, group, btn, evals>>
flagVars     == <<isExtensionEnabled, showOpenBtn, showSearchBtn>>
debounceVars == <<debounceTimerId, strayTimers, burst>>

\* the keys of STORAGE_KEYS the content script reads
STORAGE_KEYS ==
    [EXTENSION_ENABLED |-> "extensionEnabled", SHOW_OPEN_BTN |-> "showOpenBtn",
     SHOW_SEARCH_BTN |-> "showSearchBtn"]
SettingKeys == {"extensionEnabled", "showOpenBtn", "showSearchBtn"}

\* a stored value: a boolean, or undefined when the key was never written
StoredValues == {"true", "false", "undefined"}

\* x !== false
NotFalse(x) == x # "false"

\* the settings object the popup builds from its three toggles
PopupSettings == [SettingKeys -> {"true", "false"}]
Untouched     == [k \in SettingKeys |-> "undefined"]

(***************************************************************************)
(* Action Controller: the controls                                         *)
(***************************************************************************)
NoButton == [free |-> TRUE]

\* createLinkButton(worldName), with dataset.worldId set by the caller
\* (worldId = Null: no dataset.worldId)
NewLinkButton(worldName, worldId) ==
    [free |-> FALSE, worldName |-> worldName, worldId |-> worldId,
     textContent |-> BUTTON_TEXT.DEFAULT, disabled |-> FALSE,
     awaiting |-> FALSE, timers |-> 0]

\* createSearchButton(worldName)
SearchControl(worldName) == [kind |-> "search", worldName |-> worldName]
OpenControl(b)           == [kind |-> "open", b |-> b]

\* the state of the open control's state machine, read off its label
ControlState(text) ==
    CASE text = BUTTON_TEXT.DEFAULT       -> "idle"
      [] text = BUTTON_TEXT.LOADING       -> "busy"
      [] text = BUTTON_TEXT.SUCCESS       -> "success"
      [] text = BUTTON_TEXT.AUTH_REQUIRED -> "needsAuth"
      [] text = BUTTON_TEXT.NOT_FOUND     -> "notFound"

\* the open controls that are in the document
ControlsOf(gp) ==
    UNION { { gp[i][j] : j \in 1..Len(gp[i]) } : i \in 1..Len(gp) }
AttachedIn(g) ==
    { c.b : c \in { x \in UNION { ControlsOf(g[p]) : p \in Posts } : x.kind = "open" } }

\* a control no callback will touch again
Quiescent(x) ==
    x.textContent = BUTTON_TEXT.DEFAULT /\ ~x.disabled /\ ~x.awaiting /\ x.timers = 0

\* a control outside the document that no timer and no request refers to is
\* unreachable: its slot is free again
Collect(bs, g) ==
    [b \in ButtonIds |->
        IF bs[b] # NoButton /\ b \notin AttachedIn(g) /\ Quiescent(bs[b])
        THEN NoButton ELSE bs[b]]

FreeId(bs) == CHOOSE b \in ButtonIds : bs[b] = NoButton /\ \A c \in 1..(b - 1) : bs[c] # NoButton

(***************************************************************************)
(* Link Resolver and Post Processor                                        *)
(***************************************************************************)
\* a loop that inspects the title of an anchor first and its target URL last
RECURSIVE TitleFirst(_, _)
TitleFirst(links, k) ==
    IF k > Len(links) THEN Null
    ELSE LET Href(hrefId) ==
                 IF ~Falsy(hrefId) THEN hrefId ELSE TitleFirst(links, k + 1)
             Text(textId) ==
                 IF ~Falsy(textId) THEN textId
                 ELSE Href(extractWorldIdFromUrl(links[k].href))
             Title(titleId) ==
                 IF ~Falsy(titleId) THEN titleId
                 ELSE Text(extractWorldIdFromUrl(links[k].textContent))
         IN  Title(extractWorldIdFromUrl(links[k].title))

\* the loop over the anchors of processTweet, from anchor k on
RECURSIVE findWorldId(_, _)
findWorldId(links, k) ==
    IF k > Len(links) THEN Null
    ELSE LET Title(titleId) ==
                 IF ~Falsy(titleId) THEN titleId ELSE findWorldId(links, k + 1)
             Text(textId) ==
                 IF ~Falsy(textId) THEN textId
                 ELSE Title(extractWorldIdFromUrl(links[k].title))
             Href(hrefId) ==
                 IF ~Falsy(hrefId) THEN hrefId
                 ELSE Text(extractWorldIdFromUrl(links[k].textContent))
         IN  Href(extractWorldIdFromUrl(links[k].href))

\* a processTweet that lets every text pass
Ungated(tweetText) == TRUE
\* tweetText.toLowerCase().includes(TARGET_HASHTAG)
HasTargetHashtag(tweetText) == includes(toLowerCase(tweetText), TARGET_HASHTAG)

\* what processTweet reads off a post: the normalized text, whether the
\* hashtag gate passes, the name and the identifier
Reading(tpl) ==
    LET tweetText == getTextWithEmoji(tpl.text)
        gate == /\ tpl.text # NoElement
                /\ ~Falsy(tweetText)
                /\ HasTargetHashtag(tweetText)
    IN  [hasText      |-> tpl.text # NoElement,
         tweetText    |-> tweetText,
         gate         |-> gate,
         worldName    |-> IF gate THEN extractWorldName(tweetText) ELSE Null,
         foundWorldId |-> IF gate THEN findWorldId(tpl.links, 1) ELSE Null]

\* the readings of the templates (a tuple, which is computed once)
Readings == [t \in 1..NumTemplates |-> Reading(Templates[t])] \o <<>>

\* tweetElement.querySelector('.vrchat-world-link-btn')
HasButton(g) == \E i \in 1..Len(g) : Len(g[i]) > 0

\* a processTweet that does not look at the marker
Unmarked(d, p) == FALSE
\* tweetElement.hasAttribute(PROCESSED_ATTR)
AlreadyProcessed(d, p) == d.marked[p]

\* the document as processTweet sees and changes it
\* (threw: a processTweet has thrown and nothing has caught it yet)
Doc(m, g, bs, e) ==
    [marked |-> m, group |-> g, btn |-> bs, evals |-> e, threw |-> FALSE]

\* evals[p] counts how often a text of post p was normalized since p last
\* was without a marker; it stops counting at 2
Bump(n) == IF n < 2 THEN n + 1 ELSE n

\* a processTweet that sets no marker
Forgotten(d, p) == d
\* tweetElement.setAttribute(PROCESSED_ATTR, 'true')
Mark(d, p) == [d EXCEPT !.marked[p] = TRUE]

\* 'このワールド'
ThisWorld == <<"U+3053","U+306E","U+30EF","U+30FC","U+30EB","U+30C9">>

\* an open control that prefers the name to the identifier
NameFirst(worldName, foundWorldId) ==
    IF ~Falsy(worldName) THEN NewLinkButton(worldName, Null)
    ELSE NewLinkButton(ThisWorld, foundWorldId)
\* the open control of processTweet: if (foundWorldId) ... else if (worldName)
OpenButtonFor(worldName, foundWorldId) ==
    IF ~Falsy(foundWorldId) THEN NewLinkButton(ThisWorld, foundWorldId)
    ELSE NewLinkButton(worldName, Null)

\* processTweet(tweetElement) for post p showing template t, under the flags
\* open (showOpenBtn) and search (showSearchBtn)
processTweet(d, p, t, open, search) ==
    IF AlreadyProcessed(d, p) THEN d
    ELSE
    LET Unprocessed(r, actionBar) ==
            LET d1 == [Mark(d, p) EXCEPT
                          !.evals[p] = IF r.hasText THEN Bump(@) ELSE @]
                b  == FreeId(d.btn)
                openBtn ==
                    IF ~open THEN <<>>
                    ELSE IF ~Falsy(r.foundWorldId) THEN <<OpenControl(b)>>
                    ELSE IF ~Falsy(r.worldName) THEN <<OpenControl(b)>>
                    ELSE <<>>
                newBtn == OpenButtonFor(r.worldName, r.foundWorldId)
                searchBtn ==
                    IF search /\ ~Falsy(r.worldName)
                    THEN <<SearchControl(r.worldName)>> ELSE <<>>
                container == openBtn \o searchBtn
            IN  IF ~r.gate THEN d1
                ELSE IF r.foundWorldId = TypeError THEN [d1 EXCEPT !.threw = TRUE]
                ELSE IF Falsy(r.worldName) /\ Falsy(r.foundWorldId) THEN d1
                ELSE IF HasButton(d.group[p]) THEN d1
                ELSE IF container # <<>> /\ actionBar
                THEN [d1 EXCEPT !.group[p] = Append(@, container),
                                !.btn = IF openBtn # <<>>
                                        THEN [@ EXCEPT ![b] = newBtn] ELSE @]
                ELSE d1
    IN  Unprocessed(Readings[t], Templates[t].actionBar)

\* processAllTweets(): the posts of the document, in document order; forEach
\* ends when a call throws
RECURSIVE processFrom(_, _, _, _, _)
processFrom(d, p, shown, open, search) ==
    IF p > NumPosts \/ d.threw THEN d
    ELSE processFrom(IF shown[p] # 0
                     THEN processTweet(d, p, shown[p], open, search) ELSE d,
                     p + 1, shown, open, search)

processAllTweets(d, shown, open, search) == processFrom(d, 1, shown, open, search)

(***************************************************************************)
(* The world-search collaborator (background service worker)               *)
(***************************************************************************)
\* what the two requests of searchWorld can meet: the authentication check
\* and the world search
AuthOutcomes   == {"ok", "notOk", "throws"}
SearchOutcomes == {"exact", "first", "empty", "notArray", "notOk", "throws"}

Result(success, worldId, needsAuth, notFound, error) ==
    [defined |-> TRUE, success |-> success, worldId |-> worldId,
     needsAuth |-> needsAuth, notFound |-> notFound, error |-> error]

\* checkAuthStatus(): isAuthenticated
checkAuthStatus(auth) == auth = "ok"

\* a value of a message that is no string
AnObject == <<"[object Object]">>
\* typeof x === 'string'
IsString(x) == x \notin {Null, AnObject}

\* a collaborator that takes every name
AnyName(worldName) == TRUE
\* the validation of searchWorld: a non-empty string with more than blanks
ValidName(worldName) ==
    ~(Falsy(worldName) \/ ~IsString(worldName) \/ Len(trim(worldName)) = 0)

\* searchWorld(worldName) when the requests meet auth and search; a world of
\* the answer carries its id
searchWorld(worldName, auth, search) ==
    IF ~ValidName(worldName)
    THEN Result(FALSE, Null, FALSE, FALSE, TRUE)
    ELSE IF ~checkAuthStatus(auth) THEN Result(FALSE, Null, TRUE, FALSE, FALSE)
    ELSE CASE search \in {"exact", "first"} ->
                 Result(TRUE, SampleWorldId, FALSE, FALSE, FALSE)
           [] search \in {"empty", "notArray"} ->
                 Result(FALSE, Null, FALSE, TRUE, FALSE)
           [] search \in {"notOk", "throws"} ->
                 Result(FALSE, Null, FALSE, FALSE, TRUE)

\* sendMessage resolved with undefined, and sendMessage rejected
Undefined == [defined |-> FALSE, success |-> FALSE, worldId |-> Null,
              needsAuth |-> FALSE, notFound |-> FALSE, error |-> FALSE]
Rejected  == [Undefined EXCEPT !.error = TRUE]

\* what the await of the click handler can give for a name
Responses(worldName) ==
    { searchWorld(worldName, a, w) : a \in AuthOutcomes, w \in SearchOutcomes }
    \cup {Undefined, Rejected}

(***************************************************************************)
(* Steps                                                                   *)
(***************************************************************************)
\* what a step did: the listener that ran, the control or post it ran for,
\* the page it opened with window.open, whether it raised the alert, the
\* name it sent a search request for, the flags it found and the response
\* it got
Did(act) == [act |-> act, b |-> 0, p |-> 0, open |-> Null, alert |-> FALSE,
             sent |-> Null, flags |-> <<>>, response |-> <<>>]
\* a step that ran no listener of a control and handled no settings update
Quiet == Did("none")

Min(a, b) == IF a < b THEN a ELSE b

\* a callback that sets a new timer and leaves the old one running
Uncleared(id, stray) == IF id = "pending" THEN Min(stray + 1, MaxBurst) ELSE stray
\* if (debounceTimerId !== null) clearTimeout(debounceTimerId): the timers
\* that run on although debounceTimerId no longer names them
clearTimeout(id, stray) == stray

\* the callback of the MutationObserver for one batch; added: some mutation of
\* the batch has added nodes.  Gives the new <<debounceTimerId, strayTimers, burst>>
OnMutations(added, id, stray, n) ==
    IF ~added THEN <<id, stray, n>>
    ELSE <<"pending", clearTimeout(id, stray),
           IF id = "pending" THEN Min(n + 1, MaxBurst) ELSE 1>>

\* the observers see a batch
Observe(added) ==
    LET r == IF observers > 0
             THEN OnMutations(added, debounceTimerId, strayTimers, burst)
             ELSE <<debounceTimerId, strayTimers, burst>>
    IN  /\ debounceTimerId' = r[1]
        /\ strayTimers' = r[2]
        /\ burst' = r[3]

TheDoc == Doc(marked, group, btn, evals)

\* the document becomes d
SetDoc(d) ==
    /\ marked' = d.marked
    /\ group' = d.group
    /\ btn' = Collect(d.btn, d.group)
    /\ evals' = d.evals

\* the host shows a new post
HostAddPost(p, t) ==
    /\ post[p] = 0
    /\ post' = [post EXCEPT ![p] = t]
    /\ Observe(TRUE)
    /\ last' = Quiet
    /\ UNCHANGED <<call, marked, group, btn, evals, flagVars, observers, initRead,
                   scanReads, stored, msgs>>

\* the host inserts content into a post it shows
HostInsert(p, t) ==
    /\ post[p] # 0
    /\ <<post[p], t>> \in HostInserts
    /\ post' = [post EXCEPT ![p] = t]
    /\ Observe(TRUE)
    /\ last' = Quiet
    /\ UNCHANGED <<call, marked, group, btn, evals, flagVars, observers, initRead,
                   scanReads, stored, msgs>>

\* the host takes a post out of the document (a batch with removed nodes only)
HostRemovePost(p) ==
    /\ post[p] # 0
    /\ post' = [post EXCEPT ![p] = 0]
    /\ SetDoc([TheDoc EXCEPT !.marked[p] = FALSE, !.group[p] = <<>>,
                             !.evals[p] = 0])
    /\ Observe(FALSE)
    /\ last' = Quiet
    /\ UNCHANGED <<call, flagVars, observers, initRead, scanReads, stored, msgs>>

\* a debounce timer fires: processAllTweetsIfEnabled starts and reads the
\* enabled flag from the storage
PendingDebounce ==
    (IF debounceTimerId = "pending" THEN {"named"} ELSE {})
    \cup (IF strayTimers > 0 THEN {"stray"} ELSE {})

FireDebounce ==
    /\ Len(scanReads) < MaxReads
    /\ \E which \in PendingDebounce :
        /\ debounceTimerId' = IF which = "named" THEN "fired" ELSE debounceTimerId
        /\ strayTimers' = IF which = "stray" THEN strayTimers - 1 ELSE strayTimers
        /\ burst' = IF which = "named" THEN 0 ELSE burst
    /\ scanReads' = Append(scanReads, "sent")
    /\ last' = Quiet
    /\ UNCHANGED <<call, docVars, flagVars, observers, initRead, stored, msgs>>

\* the storage answers a read of the enabled flag, or fails
StorageAnswersScan(i, ok) ==
    /\ i \in 1..Len(scanReads)
    /\ scanReads[i] = "sent"
    /\ scanReads' = [scanReads EXCEPT
                       ![i] = IF ok THEN stored[STORAGE_KEYS.EXTENSION_ENABLED]
                              ELSE "error"]
    /\ last' = Quiet
    /\ UNCHANGED <<call, docVars, flagVars, debounceVars, observers, initRead, stored, msgs>>

\* a scan that takes the extension for enabled whatever it has read
AlwaysOn(v, enabled) == <<TRUE, TRUE>>
\* a scan that does not run when its settings read has failed
FailClosed(v, enabled) ==
    IF v = "error" THEN <<enabled, FALSE>> ELSE <<NotFalse(v), NotFalse(v)>>
\* the part of processAllTweetsIfEnabled after the await, given the value v
\* read (or "error"): <<isExtensionEnabled, whether processAllTweets runs>>
AfterScanRead(v, enabled) ==
    IF v = "error" THEN <<enabled, TRUE>>
    ELSE <<NotFalse(v), NotFalse(v)>>

RemoveAt(s, i) == Sub(s, 1, i) \o Sub(s, i + 1, Len(s) + 1)

\* the catch clause of processAllTweetsIfEnabled for a scan of the try block
\* that ended as d: processAllTweets() once more if it threw
Caught(d, shown, open, search) ==
    IF d.threw THEN processAllTweets([d EXCEPT !.threw = FALSE], shown, open, search)
    ELSE d

ScanResume(i) ==
    /\ i \in 1..Len(scanReads)
    /\ scanReads[i] # "sent"
    /\ LET r == AfterScanRead(scanReads[i], isExtensionEnabled)
           Becomes(d) == SetDoc(d) /\ Observe(d.group # group)
       IN  /\ isExtensionEnabled' = r[1]
           /\ Becomes(IF ~r[2] THEN TheDoc
                      ELSE IF scanReads[i] = "error"
                      THEN processAllTweets(TheDoc, post, showOpenBtn, showSearchBtn)
                      ELSE Caught(processAllTweets(TheDoc, post, showOpenBtn,
                                                   showSearchBtn),
                                  post, showOpenBtn, showSearchBtn))
           /\ last' = Quiet
    /\ scanReads' = RemoveAt(scanReads, i)
    /\ UNCHANGED <<call, post, showOpenBtn, showSearchBtn, observers, initRead, stored, msgs>>

\* the storage answers the read of init, or fails
InitStorageAnswers(ok) ==
    /\ initRead.st = "sent"
    /\ initRead' = IF ok THEN [st |-> "answered", val |-> stored]
                   ELSE [st |-> "failed", val |-> Untouched]
    /\ last' = Quiet
    /\ UNCHANGED <<call, docVars, flagVars, debounceVars, observers, scanReads, stored, msgs>>

\* the flags a settings object gives: <<isExtensionEnabled, showOpenBtn, showSearchBtn>>
FlagsOf(settings) ==
    <<NotFalse(settings[STORAGE_KEYS.EXTENSION_ENABLED]),
      NotFalse(settings[STORAGE_KEYS.SHOW_OPEN_BTN]),
      NotFalse(settings[STORAGE_KEYS.SHOW_SEARCH_BTN])>>

\* an init that installs no observer
NotInstalled(n) == n
\* setupObserver(): one more MutationObserver observes document.body
setupObserver(n) == n + 1

\* the part of init after the await: the flags are set and the posts scanned
\* when the read succeeded; the observer is installed either way
InitResume ==
    /\ initRead.st \in {"answered", "failed"}
    /\ LET ok == initRead.st = "answered"
           f  == IF ok THEN FlagsOf(initRead.val)
                 ELSE <<isExtensionEnabled, showOpenBtn, showSearchBtn>>
           scan == ok /\ f[1]
           d  == IF scan THEN processAllTweets(TheDoc, post, f[2], f[3]) ELSE TheDoc
       IN  /\ isExtensionEnabled' = f[1]
           /\ showOpenBtn' = f[2]
           /\ showSearchBtn' = f[3]
           /\ SetDoc(d)
           /\ last' = Quiet
    /\ observers' = setupObserver(observers)
    /\ initRead' = [st |-> "done", val |-> Untouched]
    /\ UNCHANGED <<call, post, debounceVars, scanReads, stored, msgs>>

\* the popup's updateSettings: the settings are stored, and the tab is sent
\* the message
UpdateMessage(settings) ==
    [action |-> "updateSettings", hasSettings |-> TRUE, settings |-> settings]
OtherMessage(action, hasSettings) ==
    [action |-> action, hasSettings |-> hasSettings, settings |-> Untouched]
\* an update request without settings, and a request for something else
OtherMessages ==
    {OtherMessage("updateSettings", FALSE), OtherMessage("searchWorld", TRUE)}

PopupUpdate(settings) ==
    /\ Len(msgs) < MaxMsgs
    /\ stored' = settings
    /\ msgs' = Append(msgs, UpdateMessage(settings))
    /\ last' = Quiet
    /\ UNCHANGED <<call, docVars, flagVars, debounceVars, observers, initRead, scanReads>>

\* a message that asks for no settings update is on its way
SendOther(m) ==
    /\ Len(msgs) < MaxMsgs
    /\ msgs' = Append(msgs, m)
    /\ last' = Quiet
    /\ UNCHANGED <<call, docVars, flagVars, debounceVars, observers, initRead,
                   scanReads, stored>>

\* a listener that leaves the containers in the document
KeepContainers(d) == d
\* document.querySelectorAll('.vrchat-world-link-container').forEach(el => el.remove())
RemoveContainers(d) == [d EXCEPT !.group = [p \in Posts |-> <<>>]]

\* a listener that leaves the markers on the posts
KeepMarkers(d) == d
\* document.querySelectorAll(`[${PROCESSED_ATTR}]`).forEach(el => el.removeAttribute(PROCESSED_ATTR))
RemoveMarkers(d) ==
    [d EXCEPT !.marked = [p \in Posts |-> FALSE], !.evals = [p \in Posts |-> 0]]

\* the reset of the listener: the containers go, then the markers
Invalidate(d, shown) == RemoveMarkers(RemoveContainers(d))

\* the listener of chrome.runtime.onMessage for the request m: the new flags
\* and the new document
OnMessage(m, d, shown, flags) ==
    IF m.action = "updateSettings" /\ m.hasSettings
    THEN LET f  == FlagsOf(m.settings)
             d0 == Invalidate(d, shown)
             d1 == [d0 EXCEPT !.btn = Collect(d0.btn, d0.group)]
         IN  [flags |-> f,
              doc |-> IF f[1] THEN processAllTweets(d1, shown, f[2], f[3]) ELSE d1]
    ELSE [flags |-> flags, doc |-> d]

ReceiveMessage ==
    /\ msgs # <<>>
    /\ LET Becomes(r) ==
               /\ isExtensionEnabled' = r.flags[1]
               /\ showOpenBtn' = r.flags[2]
               /\ showSearchBtn' = r.flags[3]
               /\ SetDoc(r.doc)
               /\ Observe(\E p \in Posts : r.doc.group[p] # <<>>
                                           /\ Head(msgs).action = "updateSettings"
                                           /\ Head(msgs).hasSettings)
       IN  Becomes(OnMessage(Head(msgs), TheDoc, post,
                             <<isExtensionEnabled, showOpenBtn, showSearchBtn>>))
    /\ last' = IF Head(msgs).action = "updateSettings" /\ Head(msgs).hasSettings
               THEN [Did("updateSettings") EXCEPT
                        !.flags = <<isExtensionEnabled, showOpenBtn, showSearchBtn>>]
               ELSE Quiet
    /\ msgs' = Tail(msgs)
    /\ UNCHANGED <<call, post, observers, initRead, scanReads, stored>>

(***************************************************************************)
(* Steps of the controls                                                   *)
(***************************************************************************)
\* encodeURIComponent leaves these as they are
Unreserved ==
    { Upper[i] : i \in 1..Len(Upper) } \cup { Lower[i] : i \in 1..Len(Lower) }
    \cup {"0","1","2","3","4","5","6","7","8","9","-","_",".","!","~","*","'","(",")"}

\* encodeURIComponent: every other code point becomes an escape, written
\* here as "%" and the code point
RECURSIVE encodeURIComponent(_)
encodeURIComponent(s) ==
    IF s = <<>> THEN <<>>
    ELSE (IF Head(s) \in Unreserved THEN <<Head(s)>> ELSE <<"%", Head(s)>>)
         \o encodeURIComponent(Tail(s))

safeEncodeURIComponent(str) ==
    IF Falsy(str) THEN <<>> ELSE encodeURIComponent(RemoveAll(str, Surrogates))

\* the URL openSearchPage opens
SearchPageUrl(worldName) ==
    VRCHAT_WEB_BASE
    \o <<"/","s","e","a","r","c","h","/","w","o","r","l","d","s","/">>
    \o safeEncodeURIComponent(worldName)

\* the controls that are busy, terminal or waiting for a timer
Active == { b \in ButtonIds : btn[b] # NoButton /\ ~Quiescent(btn[b]) }

\* a listener that leaves the control enabled while it waits
StayEnabled(x) == x
\* button.disabled = true
Disable(x) == [x EXCEPT !.disabled = TRUE]

\* a listener that asks the collaborator whatever the control carries
AlwaysAsks(x) ==
    [btn  |-> [Disable(x) EXCEPT !.textContent = BUTTON_TEXT.LOADING,
                                 !.awaiting = TRUE],
     open |-> Null, sent |-> x.worldName]
\* the click listener of createLinkButton up to its await or return, for the
\* control x: the control afterwards, the page opened and the name sent
OnClick(x) ==
    IF ~Falsy(x.worldId)
    THEN [btn  |-> [x EXCEPT !.textContent = BUTTON_TEXT.SUCCESS,
                             !.timers = @ + 1],
          open |-> WorldPageUrl(x.worldId), sent |-> Null]
    ELSE [btn  |-> [Disable(x) EXCEPT !.textContent = BUTTON_TEXT.LOADING,
                                      !.awaiting = TRUE],
          open |-> Null, sent |-> x.worldName]

\* the user clicks the open control b; a disabled button dispatches no click
ClickOpen(b) ==
    /\ b \in AttachedIn(group)
    /\ b \in Active \/ Cardinality(Active) < MaxActive
    /\ btn[b].timers < MaxTimers
    /\ IF btn[b].disabled
       THEN /\ btn' = btn
            /\ last' = [Did("ClickDisabled") EXCEPT !.b = b]
       ELSE LET r == OnClick(btn[b])
            IN  /\ btn' = [btn EXCEPT ![b] = r.btn]
                /\ last' = [Did("ClickOpen") EXCEPT !.b = b, !.open = r.open,
                                                    !.sent = r.sent]
    /\ UNCHANGED <<call, post, marked, group, evals, flagVars, debounceVars, observers,
                   initRead, scanReads, stored, msgs>>

\* the search controls of post p
SearchControlsOf(p) == { c \in ControlsOf(group[p]) : c.kind = "search" }

\* the user clicks a search control of post p
ClickSearch(p) ==
    /\ \E c \in SearchControlsOf(p) :
         last' = [Did("ClickSearch") EXCEPT !.p = p,
                                            !.open = SearchPageUrl(c.worldName)]
    /\ UNCHANGED <<call, docVars, flagVars, debounceVars, observers, initRead,
                   scanReads, stored, msgs>>

\* a listener that takes every failure for a world that was not found
AuthIgnored(response) ==
    IF response.defined /\ response.success /\ ~Falsy(response.worldId)
    THEN BUTTON_TEXT.SUCCESS
    ELSE BUTTON_TEXT.NOT_FOUND
\* the branches of the listener on the response (the catch clause gives the
\* label of the last branch)
LabelFor(response) ==
    IF response.defined /\ response.success /\ ~Falsy(response.worldId)
    THEN BUTTON_TEXT.SUCCESS
    ELSE IF response.defined /\ response.needsAuth
    THEN BUTTON_TEXT.AUTH_REQUIRED
    ELSE BUTTON_TEXT.NOT_FOUND

\* the click listener of createLinkButton after its await, for the control x
\* and the response: the control afterwards, the page opened, the notice
OnResponse(x, response) ==
    LET shown == LabelFor(response)
    IN  [btn   |-> [x EXCEPT !.textContent = shown, !.awaiting = FALSE,
                             !.timers = @ + 1],
         open  |-> IF shown = BUTTON_TEXT.SUCCESS
                   THEN WorldPageUrl(response.worldId) ELSE Null,
         alert |-> shown = BUTTON_TEXT.AUTH_REQUIRED]

\* the search request of control b is answered, or fails
Respond(b, response) ==
    /\ btn[b] # NoButton
    /\ btn[b].awaiting
    /\ response \in Responses(btn[b].worldName)
    /\ LET r == OnResponse(btn[b], response)
       IN  /\ btn' = [btn EXCEPT ![b] = r.btn]
           /\ last' = [Did("Respond") EXCEPT !.b = b, !.open = r.open,
                                             !.alert = r.alert,
                                             !.response = response]
    /\ UNCHANGED <<call, post, marked, group, evals, flagVars, debounceVars, observers,
                   initRead, scanReads, stored, msgs>>

\* a callback that leaves the control disabled
StayDisabled(x) == x
\* button.disabled = false
Enable(x) == [x EXCEPT !.disabled = FALSE]

\* the callback of a reset timer of the control x
OnResetTimer(x) ==
    IF ~Falsy(x.worldId)
    THEN [x EXCEPT !.textContent = BUTTON_TEXT.DEFAULT, !.timers = @ - 1]
    ELSE [Enable(x) EXCEPT !.textContent = BUTTON_TEXT.DEFAULT, !.timers = @ - 1]

\* a reset timer of control b fires
ResetTimer(b) ==
    /\ btn[b] # NoButton
    /\ btn[b].timers > 0
    /\ btn' = Collect([btn EXCEPT ![b] = OnResetTimer(btn[b])], group)
    /\ last' = [Did("ResetTimer") EXCEPT !.b = b]
    /\ UNCHANGED <<call, post, marked, group, evals, flagVars, debounceVars, observers,
                   initRead, scanReads, stored, msgs>>

(***************************************************************************)
(* The specification                                                       *)
(***************************************************************************)
\* no function of the text pipeline has been called
NoCall == [fn |-> "none"]

Init ==
    /\ post = [p \in Posts |-> 0]
    /\ marked = [p \in Posts |-> FALSE]
    /\ group = [p \in Posts |-> <<>>]
    /\ btn = [b \in ButtonIds |-> NoButton]
    /\ evals = [p \in Posts |-> 0]
    /\ isExtensionEnabled = TRUE
    /\ showOpenBtn = TRUE
    /\ showSearchBtn = TRUE
    /\ debounceTimerId = "null"
    /\ strayTimers = 0
    /\ burst = 0
    /\ observers = 0
    /\ initRead = [st |-> "sent", val |-> Untouched]
    /\ scanReads = <<>>
    /\ stored \in {Untouched} \cup PopupSettings
    /\ msgs = <<>>
    /\ last = Quiet
    /\ call = NoCall

\* the steps of the feed: the host page, the storage, the popup, the timers
\* and the scans
NextFeed ==
    \/ \E p \in Posts : \E t \in Shows(p) : HostAddPost(p, t)
    \/ \E p \in Posts : \E t \in Shows(p) : HostInsert(p, t)
    \/ \E p \in Posts : HostRemovePost(p)
    \/ FireDebounce
    \/ \E i \in 1..MaxReads, ok \in BOOLEAN : StorageAnswersScan(i, ok)
    \/ \E i \in 1..MaxReads : ScanResume(i)
    \/ \E ok \in BOOLEAN : InitStorageAnswers(ok)
    \/ InitResume
    \/ \E s \in PopupSettings : PopupUpdate(s)
    \/ \E m \in OtherMessages : SendOther(m)
    \/ ReceiveMessage

\* the steps of the controls: the user's clicks, the answers of the
\* collaborator and the reset timers
NextClicks ==
    \/ \E b \in ButtonIds : ClickOpen(b)
    \/ \E p \in Posts : ClickSearch(p)
    \/ \E b \in ButtonIds :
          btn[b] # NoButton /\ \E r \in Responses(btn[b].worldName) : Respond(b, r)
    \/ \E b \in ButtonIds : ResetTimer(b)

\* the steps that put controls into the document and take them out of it
NextGroups ==
    \/ \E p \in Posts : \E t \in Shows(p) : HostAddPost(p, t)
    \/ \E p \in Posts : HostRemovePost(p)
    \/ \E ok \in BOOLEAN : InitStorageAnswers(ok)
    \/ InitResume

Next == NextFeed \/ NextClicks

Spec == Init /\ [][Next]_vars

\* the feed without clicks
SpecFeed == Init /\ [][NextFeed]_vars

\* the controls that the scan of init creates, in posts that come and go
SpecControls == Init /\ [][NextGroups \/ NextClicks]_vars

\* a timer that is set fires: setTimeout runs its callback after the delay
FairControls == SpecControls /\ \A b \in ButtonIds : WF_vars(ResetTimer(b))

\* the feed when posts with SVG anchors come and go
NextSvg ==
    \/ \E p \in Posts : \E t \in ShowsSvg(p) : HostAddPost(p, t)
    \/ \E p \in Posts : HostRemovePost(p)
    \/ FireDebounce
    \/ \E i \in 1..MaxReads, ok \in BOOLEAN : StorageAnswersScan(i, ok)
    \/ \E i \in 1..MaxReads : ScanResume(i)
    \/ \E ok \in BOOLEAN : InitStorageAnswers(ok)
    \/ InitResume
    \/ \E s \in PopupSettings : PopupUpdate(s)
    \/ ReceiveMessage

SpecSvg == Init /\ [][NextSvg]_vars


(***************************************************************************)
(* Calls of the text pipeline                                              *)
(***************************************************************************)
\* the 36 characters of the sample identifier after its prefix
Uuid == Sub(SampleWorldId, 6, 42)

\* s with its letters in upper case
Uppercased(s) ==
    [i \in 1..Len(s) |->
        IF \E j \in 1..Len(Lower) : Lower[j] = s[i]
        THEN Upper[CHOOSE j \in 1..Len(Lower) : Lower[j] = s[i]] ELSE s[i]]

\* candidates for an identifier in a URL: what stands before the token, the
\* prefix of the token, its characters, and what follows
IdHeads ==
    { VRCHAT_WEB_BASE \o <<"/","w","o","r","l","d","/">>,
      VRCHAT_WEB_BASE \o <<"/","l","a","u","n","c","h","?","w","o","r","l","d","I","d","=">>,
      <<"h","t","t","p","s",":","/","/","x",".","c","o","m","/","r","?","u","=","1","&","w","o","r","l","d","I","d","=">>,
      <<"h","t","t","p","s",":","/","/","V","R","C","h","a","t",".","c","o","m","/","H","o","m","e","/","W","o","r","l","d","/">>,
      VRCHAT_WEB_BASE \o <<"/","a","v","a","t","a","r","/">> }
IdPrefixes ==
    { <<"w","r","l","d","_">>, <<"W","R","L","D","_">>, <<"W","r","l","d","_">>, <<"u","s","r","_">>, <<"w","r","l","d","-">>, <<"w","o","r","l","d","_">> }
IdBodies ==
    { Sub(Uuid, 1, 36), Uuid, Uuid \o <<"a">>, Uppercased(Uuid),
      Sub(Uuid, 1, 36) \o <<"g">> }
IdTails == { <<>>, <<"/","i","n","f","o">> }
IdCandidates ==
    [head : IdHeads, prefix : IdPrefixes, body : IdBodies, tail : IdTails]
UrlOf(c) == c.head \o c.prefix \o c.body \o c.tail

\* extractWorldIdFromUrl(url) for the URL of candidate c
ExtractId(c) ==
    /\ call = NoCall
    /\ call' = [fn |-> "extractWorldIdFromUrl", input |-> c, text |-> UrlOf(c),
                result |-> extractWorldIdFromUrl(UrlOf(c))]
    /\ UNCHANGED <<docVars, flagVars, debounceVars, observers, initRead,
                   scanReads, stored, msgs, last>>

\* the forms of a world name in a text: World: Alpha, World and Gamma in
\* brackets, a globe and Beta, the Japanese label and Delta, World: with a
\* globe only, World: with a hashtag only, a title above its author, no form
NameForms == <<
       <<"W","o","r","l","d",":"," ","A","l","p","h","a">>,
       <<"W","o","r","l","d","U+300C","G","a","m","m","a","U+300D">>,
       <<"U+1F310"," ","B","e","t","a">>,
       <<"U+30EF","U+30FC","U+30EB","U+30C9","U+540D",":"," ","D","e","l","t","a">>,
       <<"W","o","r","l","d",":"," ","U+1F30D">>,
       <<"W","o","r","l","d",":"," ","#","t","a","g">>,
       <<"Z","e","t","a","\n","B","y"," ","m","e">>,
       <<"h","e","l","l","o">> >>
NumForms == Len(NameForms)
\* what stands between two forms of a text
Separators == { <<"\n">>, <<" ">> }
\* a text with one form, or with two in either order
NameTexts ==
    [first : 1..NumForms, second : 0..NumForms, sep : Separators]
TextOf(c) ==
    IF c.second = 0 \/ c.second = c.first THEN NameForms[c.first]
    ELSE NameForms[c.first] \o c.sep \o NameForms[c.second]

\* extractWorldName(text) for the text of c
ExtractName(c) ==
    /\ call = NoCall
    /\ call' = [fn |-> "extractWorldName", input |-> c, text |-> TextOf(c),
                result |-> extractWorldName(TextOf(c))]
    /\ UNCHANGED <<docVars, flagVars, debounceVars, observers, initRead,
                   scanReads, stored, msgs, last>>

\* the text World: , an image of a globe, the text Park
ParkSubtree ==
    TextEl(<<TextNode(<<"W","o","r","l","d",":"," ">>), Img(<<"U+1F30D">>), TextNode(<<"P","a","r","k">>)>>)
\* subtrees of a post's text: the same with the image first, with an image
\* that has no alt-text, with the name in an element of its own, with an
\* anchor after the name, and without an image
Subtrees ==
    { ParkSubtree,
      TextEl(<<Img(<<"U+1F30D">>), TextNode(<<"W","o","r","l","d",":"," ">>), TextNode(<<"P","a","r","k">>)>>),
      TextEl(<<TextNode(<<"W","o","r","l","d",":"," ">>), Img(Null), TextNode(<<"P","a","r","k">>)>>),
      TextEl(<<TextNode(<<"W","o","r","l","d",":"," ">>), Img(<<"U+1F30D">>),
               Element("SPAN", Null, <<TextNode(<<"P","a","r","k">>)>>)>>),
      TextEl(<<TextNode(<<"W","o","r","l","d",":"," ">>), Img(<<"U+1F30D">>), TextNode(<<"P","a","r","k","\n">>),
               Element("A", Null, <<TextNode(TARGET_HASHTAG)>>)>>),
      TextEl(<<TextNode(<<"W","o","r","l","d",":"," ","P","a","r","k">>)>>),
      NoElement }

\* getTextWithEmoji(element)
Normalize(element) ==
    /\ call = NoCall
    /\ call' = [fn |-> "getTextWithEmoji", input |-> element, text |-> <<>>,
                result |-> getTextWithEmoji(element)]
    /\ UNCHANGED <<docVars, flagVars, debounceVars, observers, initRead,
                   scanReads, stored, msgs, last>>

\* extractWorldName on the text that getTextWithEmoji has returned
ExtractNormalized ==
    /\ call.fn = "getTextWithEmoji"
    /\ call' = [fn |-> "extractWorldName", input |-> call.input,
                text |-> call.result, result |-> extractWorldName(call.result)]
    /\ UNCHANGED <<docVars, flagVars, debounceVars, observers, initRead,
                   scanReads, stored, msgs, last>>

\* the functions of the text pipeline, called on their own
\* the posts with the hashtag and HTML anchors: with and without a name, a
\* world link and an action bar
Tagged == { t \in 1..NumTemplates : Readings[t].gate /\ t # SvgPost }

\* processTweet is called on a post without marker that shows template t,
\* the only post of a document without Control Groups
ProcessOne(t, open, search) ==
    /\ call = NoCall
    /\ call' = [fn |-> "processTweet", input |-> t, open |-> open,
                search |-> search,
                result |-> processTweet(TheDoc, 1, t, open, search)]
    /\ UNCHANGED <<docVars, flagVars, debounceVars, observers, initRead,
                   scanReads, stored, msgs, last>>

\* a second identifier, and the values of the fields of an anchor: a URL of
\* another site or no text, the world page of the sample identifier, the
\* launch URL of the second
OtherWorldId == <<"w","r","l","d","_">> \o Tail(Uuid) \o <<"0">>
PlainUrl == <<"h","t","t","p","s",":","/","/","t",".","c","o","/","x">>
WithWorld == { WorldPageUrl(SampleWorldId), LaunchUrl(OtherWorldId) }
HtmlAnchors ==
    { Anchor(h, x, t) : h \in {PlainUrl} \cup WithWorld,
                        x \in {<<>>} \cup WithWorld,
                        t \in {<<>>} \cup WithWorld }
\* the anchors that stand second: without a world, with one in one field,
\* and an SVG anchor
SecondAnchors ==
    { Anchor(PlainUrl, <<>>, <<>>),
      Anchor(LaunchUrl(OtherWorldId), <<>>, <<>>),
      Anchor(PlainUrl, WorldPageUrl(SampleWorldId), <<>>),
      Anchor(PlainUrl, <<>>, LaunchUrl(OtherWorldId)) }
SvgAnchor == Anchor(SVGAnimatedString, <<>>, Null)
\* the field of an anchor carries a world
Carries(a) == \E f \in {a.href, a.textContent, a.title} : f \in WithWorld
AnchorLists ==
    { <<>> } \cup { <<a>> : a \in HtmlAnchors }
    \cup { <<a, b>> : a \in HtmlAnchors, b \in SecondAnchors }
    \cup { <<a, SvgAnchor>> : a \in { x \in HtmlAnchors : Carries(x) } }

\* the loop of processTweet over the anchors links
ResolveLinks(links) ==
    /\ call = NoCall
    /\ call' = [fn |-> "findWorldId", input |-> links,
                result |-> findWorldId(links, 1)]
    /\ UNCHANGED <<docVars, flagVars, debounceVars, observers, initRead,
                   scanReads, stored, msgs, last>>

NextPure ==
    \/ \E links \in AnchorLists : ResolveLinks(links)
    \/ \E t \in Tagged, open \in BOOLEAN, search \in BOOLEAN :
          ProcessOne(t, open, search)
    \/ \E c \in IdCandidates : ExtractId(c)
    \/ \E c \in NameTexts : ExtractName(c)
    \/ \E e \in Subtrees : Normalize(e)
    \/ ExtractNormalized

\* the calls are made on the state after construction, nothing stored
InitPure == Init /\ stored = Untouched

SpecPure == InitPure /\ [][NextPure]_vars

\* the feed without settings updates: posts come and go, the timers fire,
\* the scans run
NextQuiet ==
    \/ \E p \in Posts : \E t \in ShowsQuiet(p) : HostAddPost(p, t)
    \/ \E p \in Posts : HostRemovePost(p)
    \/ FireDebounce
    \/ \E i \in 1..MaxReads, ok \in BOOLEAN : StorageAnswersScan(i, ok)
    \/ \E i \in 1..MaxReads : ScanResume(i)
    \/ \E ok \in BOOLEAN : InitStorageAnswers(ok)
    \/ InitResume

\* a timer that is set fires after its delay, a read of the storage is
\* answered or fails, and a function that awaits it is resumed
FairQuiet ==
    /\ Init /\ [][NextQuiet]_vars
    /\ WF_vars(FireDebounce)
    /\ WF_vars(\E i \in 1..MaxReads, ok \in BOOLEAN : StorageAnswersScan(i, ok))
    /\ WF_vars(\E i \in 1..MaxReads : ScanResume(i))
    /\ WF_vars(\E ok \in BOOLEAN : InitStorageAnswers(ok))
    /\ WF_vars(InitResume)

(***************************************************************************)
(* The round trip of one search request                                    *)
(***************************************************************************)
\* the names a searchWorld message can carry: names of controls, a name with
\* blanks around it, and values that are no name
ControlNames == { <<"P","a","r","k">>, <<"A","l","p","h","a">> }
SentNames ==
    ControlNames
    \cup { <<" ","P","a","r","k"," ">>, <<>>, <<" "," ">>, Null, AnObject }

\* how the await of the sender ends
Deliveries == {"resolves", "undefined", "rejects"}

\* a searchWorld message with worldName is sent, by the click listener of an
\* open control without identifier or by another sender
SendSearch(worldName, byControl) ==
    /\ call = NoCall
    /\ byControl => worldName \in ControlNames
    /\ call' = [fn |-> "searchWorld", worldName |-> worldName,
                pc |-> "received", requests |-> <<>>,
                auth |-> "none", search |-> "none", result |-> Undefined,
                response |-> Undefined,
                btn |-> IF byControl
                        THEN OnClick(NewLinkButton(worldName, Null)).btn
                        ELSE NoButton,
                open |-> Null, alert |-> FALSE]
    /\ UNCHANGED <<docVars, flagVars, debounceVars, observers, initRead,
                   scanReads, stored, msgs, last>>

\* searchWorld validates the name and sends the authentication check
Validate ==
    /\ call.fn = "searchWorld" /\ call.pc = "received"
    /\ call' = IF ~ValidName(call.worldName)
               THEN [call EXCEPT !.pc = "returned",
                                 !.result = searchWorld(call.worldName, "none", "none")]
               ELSE [call EXCEPT !.pc = "auth", !.requests = @ \o <<"auth">>]
    /\ UNCHANGED <<docVars, flagVars, debounceVars, observers, initRead,
                   scanReads, stored, msgs, last>>

\* the authentication check meets auth; searchWorld returns or sends the
\* world search
AuthAnswers(auth) ==
    /\ call.fn = "searchWorld" /\ call.pc = "auth"
    /\ call' = IF ~checkAuthStatus(auth)
               THEN [call EXCEPT !.pc = "returned", !.auth = auth,
                                 !.result = searchWorld(call.worldName, auth, "none")]
               ELSE [call EXCEPT !.pc = "worlds", !.auth = auth,
                                 !.requests = @ \o <<"worlds">>]
    /\ UNCHANGED <<docVars, flagVars, debounceVars, observers, initRead,
                   scanReads, stored, msgs, last>>

\* the world search meets search; searchWorld returns
WorldsAnswers(search) ==
    /\ call.fn = "searchWorld" /\ call.pc = "worlds"
    /\ call' = [call EXCEPT !.pc = "returned", !.search = search,
                            !.result = searchWorld(call.worldName, call.auth, search)]
    /\ UNCHANGED <<docVars, flagVars, debounceVars, observers, initRead,
                   scanReads, stored, msgs, last>>

\* the await of the sender ends; the click listener of the control goes on
Deliver(how) ==
    /\ call.fn = "searchWorld" /\ call.pc = "returned"
    /\ LET response == CASE how = "resolves"  -> call.result
                         [] how = "undefined" -> Undefined
                         [] how = "rejects"   -> Rejected
       IN  call' = IF call.btn = NoButton
                   THEN [call EXCEPT !.pc = "done", !.response = response]
                   ELSE [call EXCEPT !.pc = "done", !.response = response,
                                     !.btn = OnResponse(call.btn, response).btn,
                                     !.open = OnResponse(call.btn, response).open,
                                     !.alert = OnResponse(call.btn, response).alert]
    /\ UNCHANGED <<docVars, flagVars, debounceVars, observers, initRead,
                   scanReads, stored, msgs, last>>

NextSearch ==
    \/ \E n \in SentNames, c \in BOOLEAN : SendSearch(n, c)
    \/ Validate
    \/ \E a \in AuthOutcomes : AuthAnswers(a)
    \/ \E w \in SearchOutcomes : WorldsAnswers(w)
    \/ \E h \in Deliveries : Deliver(h)

SpecSearch == InitPure /\ [][NextSearch]_vars

(***************************************************************************)
(* Properties                                                              *)
(***************************************************************************)
\* a post that passes the gate and gives a name or an identifier
Qualifies(t) ==
    /\ Readings[t].gate
    /\ ~Falsy(Readings[t].worldName) \/ ~Falsy(Readings[t].foundWorldId)

\* the step handles a settings update that carries a settings object
HandlesUpdate ==
    /\ msgs # <<>>
    /\ msgs' = Tail(msgs)
    /\ Head(msgs).action = "updateSettings"
    /\ Head(msgs).hasSettings

\* the step calls processTweet on post p while p carries no marker
FirstCall(p) ==
    /\ post[p] # 0
    /\ marked'[p]
    /\ ~marked[p] \/ HandlesUpdate

\* a post holds at most one Control Group, only a qualifying post holds one,
\* and processTweet leaves the document as it is when the post is marked
C1_OneGroup ==
    \A p \in Posts :
        /\ Len(group[p]) <= 1
        /\ group[p] # <<>> => post[p] # 0 /\ marked[p] /\ Qualifies(post[p])
        /\ post[p] # 0 /\ marked[p] =>
              \A open, search \in BOOLEAN :
                  processTweet(TheDoc, p, post[p], open, search) = TheDoc

\* no step without a settings update changes the marker or the Control Group
\* of a marked post that stays in the document
C1_LaterCalls ==
    \A p \in Posts :
        post[p] # 0 /\ post'[p] # 0 /\ marked[p] /\ ~HandlesUpdate =>
            marked'[p] /\ group'[p] = group[p]

\* the first call gives a qualifying post with an action bar one Control
\* Group when a control it can carry is enabled, and no group otherwise
C1_FirstCall ==
    \A p \in Posts :
        FirstCall(p) =>
            Len(group'[p]) =
                IF /\ Qualifies(post[p])
                   /\ Templates[post[p]].actionBar
                   /\ \/ showOpenBtn'
                      \/ showSearchBtn' /\ ~Falsy(Readings[post[p]].worldName)
                THEN 1 ELSE 0

\* C1: once processTweet has been called on a post, every further call
\* without a settings update in between is a no-op: whatever scans run, a
\* qualifying post keeps the one Control Group its first call gave it and a
\* post that does not qualify holds none.
C1_Idempotence == []C1_OneGroup /\ [][C1_LaterCalls /\ C1_FirstCall]_vars

\* the second post was processed by an earlier scan than the first, so a
\* later scan called processTweet on it again; each holds one Control Group
C1_Witness ==
    /\ post[1] = 1 /\ post[2] = 1
    /\ marked[1] /\ marked[2]
    /\ group[2] = <<<<OpenControl(1), SearchControl(Readings[1].worldName)>>>>
    /\ group[1] = <<<<OpenControl(2), SearchControl(Readings[1].worldName)>>>>

\* no post has its text normalized twice while it carries its marker
C2_Once == \A p \in Posts : evals[p] <= 1

\* a step that is not a settings update normalizes no text of a marked post
C2_OnlyAfterReset ==
    \A p \in Posts :
        post[p] # 0 /\ post'[p] # 0 /\ marked[p] /\ ~HandlesUpdate =>
            evals'[p] = evals[p]

\* C2: in any interleaving of the scan of init, the debounced scans and the
\* scans of settings updates, the text of a post is normalized and extracted
\* at most once between two marker resets, and again only after a settings
\* update has removed the marker.
C2_AtMostOncePerEpoch == []C2_Once /\ [][C2_OnlyAfterReset]_vars

\* a post was evaluated while it had no action bar; the host added the bar,
\* and the debounced scan that followed has run without evaluating it again
C2_Witness ==
    /\ post[1] = 1 /\ marked[1] /\ group[1] = <<>> /\ evals[1] = 1
    /\ isExtensionEnabled /\ showOpenBtn
    /\ debounceTimerId = "fired" /\ scanReads = <<>> /\ strayTimers = 0

\* the batches since the last firing have one timer between them
C3_OneTimer ==
    /\ strayTimers = 0
    /\ burst > 0 <=> debounceTimerId = "pending"

\* the timer of a run of batches fires once: it starts one read of the
\* enabled flag and leaves no timer behind
C3_FiresOnce ==
    Len(scanReads') > Len(scanReads) =>
        /\ debounceTimerId = "pending" /\ burst >= 1
        /\ debounceTimerId' = "fired" /\ burst' = 0 /\ strayTimers' = 0
        /\ Len(scanReads') = Len(scanReads) + 1

\* the read of a firing resumes once, with one scan when the extension is
\* enabled: every post of the document is marked afterwards
C3_ScansOnce ==
    Len(scanReads') < Len(scanReads) =>
        /\ Len(scanReads') = Len(scanReads) - 1
        /\ isExtensionEnabled' => \A p \in Posts : post[p] # 0 => marked'[p]

\* C3: N >= 1 mutation batches with added nodes that arrive less than the
\* debounce delay apart make the debounce timer fire once, after the last of
\* them, and so give one invocation of the Feed Scanner when the extension is
\* enabled, not N.
C3_DebounceCoalescing == []C3_OneTimer /\ [][C3_FiresOnce /\ C3_ScansOnce]_vars

\* two posts arrived in two batches after the scan of init, and the timer
\* has fired once for both: one read is under way and no timer is pending
C3_Witness ==
    /\ stored = Untouched /\ observers = 1
    /\ post[1] # 0 /\ post[2] # 0 /\ ~marked[1] /\ ~marked[2]
    /\ debounceTimerId = "fired" /\ burst = 0 /\ Len(scanReads) = 1

\* the normalized text of template t holds the hashtag in no spelling
LacksHashtag(t) ==
    LET text == toLowerCase(getTextWithEmoji(Templates[t].text))
    IN  \A i \in 1..Len(text) :
            \/ i + Len(TARGET_HASHTAG) - 1 > Len(text)
            \/ \E k \in 1..Len(TARGET_HASHTAG) :
                  text[i + k - 1] # LowerChar(TARGET_HASHTAG[k])

\* the templates without the hashtag
Hashtagless == { t \in 1..NumTemplates : LacksHashtag(t) }

\* C4: a post whose normalized text does not hold the trigger hashtag,
\* compared without regard to case, has no Control Group in any reachable
\* state, whatever anchors and world-name patterns it holds and whatever the
\* settings are.
C4_GateCorrectness ==
    \A p \in Posts : post[p] \in Hashtagless => group[p] = <<>>

\* a post without the hashtag whose text gives a name and whose anchor gives
\* an identifier was processed with both controls enabled
C4_Witness ==
    /\ post[1] = 3 /\ marked[1] /\ group[1] = <<>>
    /\ 3 \in Hashtagless
    /\ ~Falsy(extractWorldName(Readings[3].tweetText))
    /\ ~Falsy(findWorldId(Templates[3].links, 1))
    /\ isExtensionEnabled /\ showOpenBtn /\ showSearchBtn

\* the templates that give both an identifier from a URL and a name
IdAndName ==
    { t \in 1..NumTemplates :
        Qualifies(t) /\ ~Falsy(Readings[t].worldName)
                     /\ ~Falsy(Readings[t].foundWorldId) }

\* processed with both controls enabled, such a post gets an open control
\* that carries the identifier and a search control with the name
C5_Created ==
    \A p \in Posts :
        /\ FirstCall(p) /\ post[p] \in IdAndName /\ Templates[post[p]].actionBar
        /\ showOpenBtn' /\ showSearchBtn'
        => \E b \in ButtonIds :
              /\ group'[p] = <<<<OpenControl(b),
                                SearchControl(Readings[post[p]].worldName)>>>>
              /\ btn'[b] = NewLinkButton(ThisWorld, Readings[post[p]].foundWorldId)

\* a click on a control that carries an identifier opens the page of that
\* identifier and sends no search request
C5_Opens ==
    last.act = "ClickOpen" /\ ~Falsy(btn[last.b].worldId) =>
        /\ last.open = WorldPageUrl(btn[last.b].worldId)
        /\ last.sent = Null
        /\ ~btn[last.b].awaiting

\* C5: for a qualifying post with both an identifier from a URL and an
\* extractable name, with both controls enabled, the open control carries the
\* identifier and opens it without a search request, and the search control
\* is still created with the extracted name.
C5_LinkPrecedence == []C5_Opens /\ [][C5_Created]_vars

\* the open control of such a post was clicked: the page of the identifier
\* of its link is open, next to the search control with the name
C5_Witness ==
    /\ post[1] = 2 /\ 2 \in IdAndName
    /\ last.act = "ClickOpen"
    /\ group[1] = <<<<OpenControl(last.b), SearchControl(Readings[2].worldName)>>>>
    /\ last.open = WorldPageUrl(SampleWorldId) /\ last.sent = Null

\* the controls of a kind that post p holds after the step
ControlsAfter(p, kind) ==
    { <<i, j>> \in (1..2) \X (1..2) :
        /\ i <= Len(group'[p]) /\ j <= Len(group'[p][i])
        /\ group'[p][i][j].kind = kind }

\* the templates that qualify with a name and have an action bar
NamedWithBar ==
    { t \in 1..NumTemplates :
        Qualifies(t) /\ ~Falsy(Readings[t].worldName) /\ Templates[t].actionBar }

\* after an update with showSearchBtn = false no search control is in the
\* document
C6_Off ==
    HandlesUpdate /\ ~showSearchBtn' =>
        \A p \in Posts : ControlsAfter(p, "search") = {}

\* an update that turns showSearchBtn on again, with the extension and the
\* open control enabled before and after, leaves one search control and one
\* open control on every post that qualifies with a name
C6_OnAgain ==
    /\ HandlesUpdate
    /\ isExtensionEnabled /\ showOpenBtn /\ ~showSearchBtn
    /\ isExtensionEnabled' /\ showOpenBtn' /\ showSearchBtn'
    => \A p \in Posts :
          post[p] \in NamedWithBar =>
              /\ Cardinality(ControlsAfter(p, "search")) = 1
              /\ Cardinality(ControlsAfter(p, "open")) = 1

\* C6: after a settings update with showSearchControl = false and then one
\* with showSearchControl = true, the extension and the open control enabled
\* throughout, every post that still qualifies with a name (and has an action
\* bar) has one search control and one open control; after the first of the
\* two updates no search control is in the document.
C6_SettingsReset == [][C6_Off /\ C6_OnAgain]_vars

\* the search control was turned off and then on again: the post holds one
\* open and one search control, and the update that brought them is handled
C6_Witness ==
    /\ post[1] = 1 /\ 1 \in NamedWithBar
    /\ last.act = "updateSettings" /\ last.flags = <<TRUE, TRUE, FALSE>>
    /\ isExtensionEnabled /\ showOpenBtn /\ showSearchBtn
    /\ group[1] = <<<<OpenControl(1), SearchControl(Readings[1].worldName)>>>>

\* the kinds of the controls of the groups gs, group by group
Kinds(gs) == [i \in 1..Len(gs) |-> [j \in 1..Len(gs[i]) |-> gs[i][j].kind]]

\* the kinds a scan gives a post without marker that shows template t
FreshKinds(t, open, search) ==
    LET controls ==
            (IF open THEN <<"open">> ELSE <<>>)
            \o (IF search /\ ~Falsy(Readings[t].worldName) THEN <<"search">> ELSE <<>>)
    IN  IF Qualifies(t) /\ Templates[t].actionBar /\ controls # <<>>
        THEN <<controls>> ELSE <<>>

\* the listener leaves nothing of the epoch before: with the new enabled
\* flag false no post is marked and no Control Group exists, with it true
\* every post of the document is marked and holds what a scan of a document
\* without markers and groups gives it under the new flags
C7_Handled ==
    HandlesUpdate =>
        \A p \in Posts :
            IF isExtensionEnabled' /\ post[p] # 0
            THEN /\ marked'[p]
                 /\ Kinds(group'[p]) = FreshKinds(post[p], showOpenBtn', showSearchBtn')
            ELSE ~marked'[p] /\ group'[p] = <<>>

\* C7: handling a settings update that carries a settings object removes
\* every Control Group and every Processed Marker of the document and then
\* runs a full scan if and only if the new enabled flag is true; right after
\* an update with enabled = false no post is marked and no Control Group
\* exists.
C7_EpochInvalidation == [][C7_Handled]_vars

\* the debounced scan had processed the post under the flags of the epoch
\* before; the update that disables the extension has taken its marker and
\* its Control Group away
C7_Witness ==
    /\ last.act = "updateSettings" /\ last.flags = <<TRUE, TRUE, TRUE>>
    /\ ~isExtensionEnabled
    /\ post[1] = 1 /\ ~marked[1] /\ group[1] = <<>>
    /\ debounceTimerId = "fired" /\ burst = 0 /\ scanReads = <<>>

\* the state of control b
StateOf(x) == ControlState(x.textContent)
Terminal == {"success", "needsAuth", "notFound"}

\* the transitions of the state machine as the claim lists them
Listed(x) ==
    { <<"idle", "busy">>, <<"busy", "success">>, <<"busy", "needsAuth">>,
      <<"busy", "notFound">> }
    \cup { <<t, "idle">> : t \in Terminal }
    \cup (IF ~Falsy(x.worldId) THEN { <<"idle", "success">> } ELSE {})

\* the transitions a control makes: a control without an identifier goes
\* through busy, a control with one between idle and success only
Made(x) ==
    IF ~Falsy(x.worldId) THEN { <<"idle", "success">>, <<"success", "idle">> }
    ELSE Listed(x)

\* the step is the click listener of control b
Activates(b) == last'.act = "ClickOpen" /\ last'.b = b

\* C8 (as claimed): every change of state of a control is a listed
\* transition, and the click listener of a control runs only when the
\* control is idle
C8_AsClaimed ==
    [][\A b \in ButtonIds :
          btn[b] # NoButton /\ btn'[b] # NoButton =>
              /\ StateOf(btn[b]) # StateOf(btn'[b]) =>
                    <<StateOf(btn[b]), StateOf(btn'[b])>> \in Listed(btn[b])
              /\ Activates(b) => StateOf(btn[b]) = "idle"]_vars

\* C8: the only transitions an open control makes are idle->busy,
\* busy->success, busy->needsAuth, busy->notFound and terminal->idle, and
\* idle->success for a control that carries a pre-resolved identifier.  A
\* control without an identifier accepts no activation while it is busy or
\* in a terminal state; a control with an identifier is never disabled and
\* accepts an activation in success as well, which opens the page again and
\* leaves it in success.
C8_StateMachine ==
    [][\A b \in ButtonIds :
          btn[b] # NoButton /\ btn'[b] # NoButton =>
              /\ StateOf(btn[b]) # StateOf(btn'[b]) =>
                    <<StateOf(btn[b]), StateOf(btn'[b])>> \in Made(btn[b])
              /\ Activates(b) =>
                    IF Falsy(btn[b].worldId)
                    THEN /\ StateOf(btn[b]) = "idle"
                         /\ StateOf(btn'[b]) = "busy"
                    ELSE /\ StateOf(btn[b]) \in {"idle", "success"}
                         /\ StateOf(btn'[b]) = "success"
                         /\ last'.open = WorldPageUrl(btn[b].worldId)
                         /\ ~btn'[b].disabled
              /\ last'.act = "ClickDisabled" /\ last'.b = b =>
                    /\ StateOf(btn[b]) \in {"busy"} \cup Terminal
                    /\ Falsy(btn[b].worldId)
                    /\ btn'[b] = btn[b]]_vars

\* a control with an identifier was clicked again while it showed success:
\* two reset timers are waiting
C8_Witness ==
    /\ last.act = "ClickOpen"
    /\ ~Falsy(btn[last.b].worldId)
    /\ StateOf(btn[last.b]) = "success"
    /\ btn[last.b].timers = 2

\* what the listener does with the response the last step handled
C9_Mapped ==
    last.act = "Respond" =>
        LET r == last.response
            x == btn[last.b]
        IN  IF r.defined /\ r.success /\ ~Falsy(r.worldId)
            THEN /\ StateOf(x) = "success"
                 /\ last.open = WorldPageUrl(r.worldId)
                 /\ ~last.alert
            ELSE IF r.defined /\ r.needsAuth
            THEN /\ StateOf(x) = "needsAuth"
                 /\ last.alert
                 /\ last.open = Null
            ELSE /\ StateOf(x) = "notFound"
                 /\ ~last.alert
                 /\ last.open = Null

\* the listener resumes only in busy
C9_FromBusy ==
    \A b \in ButtonIds :
        last'.act = "Respond" /\ last'.b = b => StateOf(btn[b]) = "busy"

\* C9: in busy, a response with success and an identifier opens the world
\* page and gives success; otherwise a response flagged needsAuth gives
\* needsAuth with a blocking notice and opens no page; every other outcome (a
\* missing response, notFound, an error field, a rejected request) gives
\* notFound and opens no page.
C9_ResponseMapping == []C9_Mapped /\ [][C9_FromBusy]_vars

\* the request of a busy control was rejected: the control shows notFound
C9_Witness ==
    /\ last.act = "Respond" /\ last.response = Rejected
    /\ StateOf(btn[last.b]) = "notFound"
    /\ last.open = Null /\ ~last.alert

\* control b is idle, enabled and has its default label, or is gone with the
\* document it was in
Reverted(b) ==
    \/ btn[b] = NoButton
    \/ /\ StateOf(btn[b]) = "idle"
       /\ ~btn[b].disabled
       /\ btn[b].textContent = BUTTON_TEXT.DEFAULT

\* a control is busy exactly while its request is unanswered, and a reset
\* timer waits for every control in a terminal state
C10_Pending ==
    \A b \in ButtonIds :
        btn[b] # NoButton =>
            /\ StateOf(btn[b]) = "busy" <=> btn[b].awaiting
            /\ StateOf(btn[b]) \in Terminal => btn[b].timers > 0

\* C10: every open control that reaches success, needsAuth or notFound
\* returns to idle, enabled and with its default label, provided its reset
\* timer fires; a control is busy only while its search request has not been
\* answered.
C10_AutoRevert ==
    /\ []C10_Pending
    /\ \A b \in ButtonIds :
          (btn[b] # NoButton /\ StateOf(btn[b]) \in Terminal) ~> Reverted(b)

\* a control that needed a login is idle and enabled again, in its post
C10_Witness ==
    /\ last.act = "ResetTimer"
    /\ btn[last.b] # NoButton
    /\ Falsy(btn[last.b].worldId)
    /\ Reverted(last.b) /\ btn[last.b].timers = 0
    /\ last.b \in AttachedIn(group)


\* a step in which a scan runs to its end: the scan of init, a debounced scan
\* or the scan of a settings update
InitScanEnds ==
    /\ initRead.st = "answered" /\ initRead'.st = "done"
    /\ FlagsOf(initRead.val)[1]
DebouncedScanEnds ==
    \E i \in 1..Len(scanReads) :
        /\ scanReads[i] # "sent"
        /\ scanReads' = RemoveAt(scanReads, i)
        /\ AfterScanRead(scanReads[i], isExtensionEnabled)[2]
UpdateScanEnds == HandlesUpdate /\ isExtensionEnabled'

\* every post of the document has been processed
AllProcessed == \A p \in Posts : post[p] # 0 => marked[p]

\* the three scans leave no post of the document unprocessed, and the
\* observer observes after init
C11_InitialScan   == InitScanEnds => AllProcessed'
C11_DebouncedScan == DebouncedScanEnds => AllProcessed'
C11_UpdateScan    == UpdateScanEnds => AllProcessed'
C11_Observing     == initRead.st = "done" => observers > 0
\* C11 (as claimed): when a scan ends - the initial scan, a debounced scan or
\* the scan of a settings update - every post of the document has been
\* processed, whether or not the processing of another post threw, and the
\* observer observes once init has ended
C11_AsClaimed ==
    /\ []C11_Observing
    /\ [][C11_InitialScan /\ C11_DebouncedScan /\ C11_UpdateScan]_vars

\* the scan of init has ended at the post with the SVG anchor: the post after
\* it is unprocessed and no timer is pending
C11_Witness ==
    /\ initRead.st = "done" /\ isExtensionEnabled
    /\ post[1] = SvgPost /\ marked[1]
    /\ post[2] = 1 /\ ~marked[2] /\ group[2] = <<>>
    /\ debounceTimerId = "null" /\ scanReads = <<>> /\ msgs = <<>>


\* the step sends a searchWorld request
SendsRequest ==
    \/ ~Falsy(last'.sent)
    \/ \E b \in ButtonIds :
          /\ btn'[b] # NoButton /\ btn'[b].awaiting
          /\ ~(btn[b] # NoButton /\ btn[b].awaiting)

\* what each of the three activations sends and opens
C12_OnlyWithoutId ==
    SendsRequest =>
        /\ last'.act = "ClickOpen"
        /\ Falsy(btn[last'.b].worldId)
        /\ last'.sent = btn[last'.b].worldName
        /\ btn'[last'.b].awaiting
        /\ Falsy(last'.open)
C12_WithId ==
    (last'.act = "ClickOpen" /\ ~Falsy(btn[last'.b].worldId)) =>
        /\ last'.open = WorldPageUrl(btn[last'.b].worldId)
        /\ Falsy(last'.sent)
        /\ ~btn'[last'.b].awaiting
C12_SearchControl ==
    last'.act = "ClickSearch" =>
        /\ \E c \in SearchControlsOf(last'.p) : last'.open = SearchPageUrl(c.worldName)
        /\ Falsy(last'.sent)
        /\ btn' = btn
\* C12: a searchWorld request is sent only by the activation of an open
\* control that carries no pre-resolved identifier, and that step opens no
\* page; the activation of an open control with a pre-resolved identifier
\* opens the world page of the identifier in the same step and sends nothing;
\* the activation of a search control opens the search page of its name in
\* the same step and sends nothing
C12_RequestsOnlyWithoutId ==
    [][C12_OnlyWithoutId /\ C12_WithId /\ C12_SearchControl]_vars

\* an open control without identifier has been activated and waits for the
\* answer to its request; then an open control with a pre-resolved identifier,
\* which stands next to a search control, has been activated and has opened
\* the world page
C12_Witness ==
    /\ last.act = "ClickOpen"
    /\ ~Falsy(btn[last.b].worldId)
    /\ last.open = WorldPageUrl(SampleWorldId)
    /\ ~btn[last.b].awaiting
    /\ \E b \in ButtonIds : /\ btn[b] # NoButton /\ btn[b].awaiting
                             /\ Falsy(btn[b].worldId)
    /\ \E p \in Posts : OpenControl(last.b) \in ControlsOf(group[p])
                          /\ SearchControlsOf(p) # {}


\* the token of candidate c is the lowercase prefix and exactly 36 lowercase
\* hex digits or hyphens
WellFormedId(c) ==
    /\ c.prefix = <<"w","r","l","d","_">>
    /\ Len(c.body) = IdTokenLen
    /\ \A i \in 1..Len(c.body) : c.body[i] \in IdChars

\* C13 (as claimed): extractWorldIdFromUrl yields an identifier only for a
\* candidate whose token is the lowercase prefix followed by exactly 36
\* lowercase hex-or-hyphen characters, and the identifier is that token; a
\* candidate with 35 or 37 characters or with another prefix, another letter
\* case included, yields none
C13_AsClaimed ==
    (call.fn = "extractWorldIdFromUrl" /\ ~Falsy(call.result)) =>
        /\ WellFormedId(call.input)
        /\ call.result = call.input.prefix \o call.input.body

\* what the code does with these candidates: the token is found whatever the
\* letter case of the prefix, the letters of the token and the path before it,
\* and a token of 37 characters yields its first 36
C13_Matched ==
    (call.fn = "extractWorldIdFromUrl" /\ ~Falsy(call.result)) =>
        /\ toLowerCase(call.input.prefix) = <<"w","r","l","d","_">>
        /\ Len(call.input.body) >= IdTokenLen
        /\ \A i \in 1..IdTokenLen : LowerChar(call.input.body[i]) \in IdChars
        /\ call.result = call.input.prefix \o Sub(call.input.body, 1, IdTokenLen + 1)

\* a URL with a token of 37 characters has yielded an identifier
C13_Witness ==
    /\ call.fn = "extractWorldIdFromUrl"
    /\ call.input.prefix = <<"w","r","l","d","_">>
    /\ call.input.body = Uuid \o <<"a">>
    /\ call.result = SampleWorldId


\* the capture of pattern k in text (match[1]), Null if the pattern does not
\* match or captures nothing
Capture(text, k) ==
    LET Of(m) == IF m # NoMatch /\ m[4] > m[3] THEN Sub(text, m[3], m[4]) ELSE Null
    IN  Of(match(text, WORLD_PATTERNS[k]))
\* pattern k matches text; its cleaned capture is not empty as well
Matches(text, k) == Capture(text, k) # Null
Usable(text, k) == Matches(text, k) /\ CleanName(Capture(text, k)) # <<>>
PatternIds == 1..Len(WORLD_PATTERNS)

\* World: Alpha with a trailing globe and Beta on the next line, and the two
\* forms the other way round
AlphaThenBeta == NameForms[1] \o <<"\n">> \o NameForms[3]
BetaThenAlpha == NameForms[3] \o <<"\n">> \o NameForms[1]
C14_Example ==
    (call.fn = "extractWorldName" /\ call.text \in {AlphaThenBeta, BetaThenAlpha})
        => call.result = <<"A","l","p","h","a">>

WorldGlobePark == <<"W","o","r","l","d",":"," ","U+1F30D","P","a","r","k">>
\* the subtree with the globe's image before the two texts
GlobeFirst ==
    TextEl(<<Img(<<"U+1F30D">>), TextNode(<<"W","o","r","l","d",":"," ">>), TextNode(<<"P","a","r","k">>)>>)

\* the two steps of the pipeline on the subtree
C15_Normalized ==
    call.fn = "getTextWithEmoji" =>
        /\ call.input = ParkSubtree => call.result = WorldGlobePark
        /\ call.input = GlobeFirst => call.result = <<"U+1F30D">> \o <<"W","o","r","l","d",":"," ","P","a","r","k">>
C15_Extracted ==
    (call.fn = "extractWorldName" /\ call.input = ParkSubtree) =>
        /\ call.text = WorldGlobePark
        /\ call.result = <<"P","a","r","k">>
\* C15: the subtree made of the text World: , an image with the globe as its
\* alt-text and the text Park normalizes to World: , the globe, Park - the
\* text nodes and the alt-texts in document order - and extractWorldName on
\* that string yields Park; with the image first the string starts with the
\* globe
C15_NormalizeThenExtract == C15_Normalized /\ C15_Extracted

\* the subtree has been normalized and Park extracted from its text
C15_Witness ==
    /\ call.fn = "extractWorldName"
    /\ call.input = ParkSubtree
    /\ "U+1F30D" \in { call.text[i] : i \in 1..Len(call.text) }
    /\ call.result = <<"P","a","r","k">>


\* a settings update has just been handled while a debounced scan or init was
\* suspended on its settings read, and this step ends the last of them
LastSuspendedEnds ==
    /\ last.act = "updateSettings"
    /\ msgs = <<>> /\ msgs' = <<>>
    /\ \/ scanReads # <<>> /\ scanReads' = <<>> /\ initRead.st = "done"
       \/ initRead.st # "done" /\ initRead'.st = "done" /\ scanReads' = <<>>

\* the Control Groups after the last suspended scan are those of a full scan
\* under the flags of the update
C16_Converged ==
    LastSuspendedEnds =>
        \A p \in Posts :
            Kinds(group'[p]) =
                IF isExtensionEnabled /\ post[p] # 0
                THEN FreshKinds(post[p], showOpenBtn, showSearchBtn)
                ELSE <<>>
\* C16 (as claimed): when a settings update was handled while a debounced
\* scan or init was suspended on its settings read, then at the end of the
\* last suspended scan every post holds the Control Groups that a full scan
\* under the updated settings gives it, and none if the update has set
\* enabled to false
C16_AsClaimed == [][C16_Converged]_vars

\* an update with enabled = false has just been handled - no post is marked
\* and no Control Group is left - while a debounced scan is suspended on a
\* settings read that fails, and a qualifying post is in the document
C16_Witness ==
    /\ last.act = "updateSettings" /\ last.flags[1]
    /\ ~isExtensionEnabled
    /\ stored[STORAGE_KEYS.EXTENSION_ENABLED] = "false"
    /\ msgs = <<>> /\ initRead.st = "done"
    /\ scanReads = <<"error">>
    /\ post[1] = 1 /\ ~marked[1] /\ group[1] = <<>>


\* the step ends init, and the step resumes a debounced scan whose settings
\* read has given a value
InitEnds == initRead.st # "done" /\ initRead'.st = "done"
ScanReadGives(v) ==
    \E i \in 1..Len(scanReads) :
        scanReads[i] = v /\ scanReads' = RemoveAt(scanReads, i)

\* C17 (as claimed): a step changes isExtensionEnabled, showOpenBtn or
\* showSearchBtn only if it is the end of init or the handling of a settings
\* update; the observer's callback, the debounced scan, processAllTweets and
\* processTweet leave the three flags as they are
C17_AsClaimed ==
    [][flagVars' # flagVars => InitEnds \/ HandlesUpdate]_vars

\* the writers of the two display flags, and those of the enabled flag
C17_ShowFlags ==
    <<showOpenBtn, showSearchBtn>>' # <<showOpenBtn, showSearchBtn>>
        => InitEnds \/ HandlesUpdate
C17_Enabled ==
    isExtensionEnabled' # isExtensionEnabled =>
        \/ InitEnds
        \/ HandlesUpdate
        \/ \E v \in StoredValues : ScanReadGives(v) /\ isExtensionEnabled' = NotFalse(v)
\* C17 (amended): showOpenBtn and showSearchBtn change only at the end of
\* init and in the handling of a settings update; isExtensionEnabled changes
\* there and when a debounced scan resumes from a settings read that has
\* given a value, and then it becomes whether that value is not false; a
\* debounced scan whose read has failed, the observer's callback and the
\* host's steps leave the three flags as they are
C17_FlagWriters == [][C17_ShowFlags /\ C17_Enabled]_vars

\* after init a debounced scan has read enabled = false from the storage
\* while the flag in memory is true, no update is on its way, and the scan
\* is about to resume
C17_Witness ==
    /\ initRead.st = "done" /\ msgs = <<>>
    /\ scanReads = <<"false">>
    /\ isExtensionEnabled


\* the step changes a marker or a Control Group
TouchesPosts == marked' # marked \/ group' # group

\* C18 (as claimed): a debounced scan touches the posts only if the settings
\* read has given an enabled flag that is not false; when the read has given
\* false or has failed, the timer's firing marks no post and attaches no
\* Control Group
C18_AsClaimed ==
    [][\A v \in {"false", "error"} : ScanReadGives(v) => ~TouchesPosts]_vars

\* the scan after a read that gave false, and after every other outcome
C18_Disabled == ScanReadGives("false") => ~TouchesPosts
C18_Runs ==
    (\E v \in {"true", "undefined", "error"} : ScanReadGives(v)) => AllProcessed'
\* C18 (amended): when the settings read of a debounced scan has given
\* false, the scan marks no post and attaches no Control Group; when it has
\* given true or nothing (the flag was never stored), and also when the read
\* has failed, processAllTweets runs: afterwards every post of the document
\* is marked
C18_EnabledGate == [][C18_Disabled /\ C18_Runs]_vars

\* the extension is disabled in the storage and in memory, a qualifying post
\* without marker is in the document, the debounce timer has fired and the
\* settings read of its scan has failed
C18_Witness ==
    /\ initRead.st = "done" /\ msgs = <<>> /\ last = Quiet
    /\ stored[STORAGE_KEYS.EXTENSION_ENABLED] = "false"
    /\ ~isExtensionEnabled
    /\ debounceTimerId = "fired"
    /\ scanReads = <<"error">>
    /\ post[1] = 1 /\ ~marked[1] /\ group[1] = <<>>


\* the debounce timers that are pending: the one debounceTimerId names and
\* those that were replaced without being cancelled
PendingTimers == (IF debounceTimerId = "pending" THEN 1 ELSE 0) + strayTimers

\* the step is a callback of the observer for a batch with added nodes that
\* finds a timer pending
RestartsTimer ==
    /\ observers > 0 /\ debounceTimerId = "pending"
    /\ \/ \E p \in Posts : post[p] = 0 /\ post'[p] # 0
       \/ \E p \in Posts : post[p] # 0 /\ post'[p] # post[p] /\ post'[p] # 0
       \/ \E p \in Posts : Len(group'[p]) > Len(group[p])

C19_AtMostOne == PendingTimers <= 1
C19_CancelsFirst ==
    RestartsTimer => debounceTimerId' = "pending" /\ PendingTimers' = 1
C19_OnlyTheNamedFires ==
    PendingTimers' < PendingTimers =>
        /\ debounceTimerId = "pending" /\ debounceTimerId' = "fired"
        /\ PendingTimers' = 0
        /\ Len(scanReads') = Len(scanReads) + 1
\* C19: in every reachable state at most one debounce timer is pending; a
\* batch with an added node that finds a timer pending cancels it and starts
\* a new one, so one timer is pending afterwards; a scan is started only by
\* the firing of the timer that debounceTimerId names, never by a timer that
\* was cancelled
C19_SingleTimer ==
    []C19_AtMostOne /\ [][C19_CancelsFirst /\ C19_OnlyTheNamedFires]_vars

\* a second batch with added nodes has arrived while the timer of the first
\* was pending: one timer is pending and no scan has started
C19_Witness ==
    /\ observers = 1 /\ initRead.st = "done"
    /\ post[1] # 0 /\ post[2] # 0 /\ ~marked[1] /\ ~marked[2]
    /\ debounceTimerId = "pending" /\ burst = 2 /\ PendingTimers = 1
    /\ scanReads = <<>>


\* the open controls that carry no identifier
Searching == { b \in ButtonIds : btn[b] # NoButton /\ Falsy(btn[b].worldId) }

\* a control without an identifier is disabled exactly while it is not idle;
\* while its request is outstanding it is busy and no reset timer waits, and
\* from the response to the reset exactly one reset timer waits
C20_DisabledWhileBusy ==
    \A b \in Searching :
        /\ btn[b].disabled <=> StateOf(btn[b]) # "idle"
        /\ btn[b].awaiting => StateOf(btn[b]) = "busy" /\ btn[b].timers = 0
        /\ ~btn[b].awaiting =>
              btn[b].timers = (IF StateOf(btn[b]) = "idle" THEN 0 ELSE 1)

\* a request is sent for a control only when none is outstanding for it
C20_OneRequest ==
    \A b \in ButtonIds :
        Activates(b) /\ last'.sent # Null =>
            /\ ~btn[b].awaiting /\ ~btn[b].disabled
            /\ btn'[b].awaiting /\ btn'[b].disabled

\* an activation of a disabled control changes no control, sends nothing and
\* opens nothing
C20_NoEffect ==
    last'.act = "ClickDisabled" =>
        /\ btn[last'.b].disabled
        /\ btn' = btn
        /\ last'.sent = Null /\ last'.open = Null

\* a disabled control is enabled again only by its reset timer, which
\* returns it to idle
C20_EnabledByReset ==
    \A b \in ButtonIds :
        btn[b] # NoButton /\ btn'[b] # NoButton
        /\ btn[b].disabled /\ ~btn'[b].disabled =>
            /\ last'.act = "ResetTimer" /\ last'.b = b
            /\ StateOf(btn'[b]) = "idle"

\* C20: for each open control at most one search request is outstanding at
\* any time; the control is disabled from the moment it enters busy until
\* its reset timer returns it to idle, and activations in that interval have
\* no effect
C20_NoReentrantSearch ==
    []C20_DisabledWhileBusy
    /\ [][C20_OneRequest /\ C20_NoEffect /\ C20_EnabledByReset]_vars

\* a control was activated while its request was outstanding
C20_Witness ==
    /\ last.act = "ClickDisabled"
    /\ btn[last.b] # NoButton
    /\ btn[last.b].awaiting /\ btn[last.b].disabled
    /\ StateOf(btn[last.b]) = "busy"


\* the click listener of a control has handled the end of its request
RoundTripDone ==
    call.fn = "searchWorld" /\ call.pc = "done" /\ call.btn # NoButton

\* C21 (as claimed): at the end of the round trip of a search request the
\* control is in needsAuth only if the authentication check was answered and
\* the answer was not ok, and a request of the collaborator that failed in
\* transport - the authentication check or the world search - has led the
\* control to notFound
C21_AsClaimed ==
    RoundTripDone =>
        /\ StateOf(call.btn) = "needsAuth" => call.auth = "notOk"
        /\ "throws" \in {call.auth, call.search} => StateOf(call.btn) = "notFound"

\* what the code does: the control is in needsAuth, and the alert raised,
\* exactly when the result was delivered and the authentication check was
\* answered not ok or failed in transport; a world search that failed in
\* transport leads to notFound
C21_Conflated ==
    RoundTripDone =>
        /\ StateOf(call.btn) = "needsAuth" <=>
              call.response.defined /\ call.auth \in {"notOk", "throws"}
        /\ call.alert <=> StateOf(call.btn) = "needsAuth"
        /\ call.search = "throws" => StateOf(call.btn) = "notFound"

\* the authentication check has failed in transport and the control shows
\* that a login is required
C21_Witness ==
    /\ RoundTripDone
    /\ call.requests = <<"auth">> /\ call.auth = "throws"
    /\ StateOf(call.btn) = "needsAuth" /\ call.alert


\* searchWorld has returned
Returned == call.fn = "searchWorld" /\ call.pc \in {"returned", "done"}
\* a name that is blank, and one that is no string
Blank(worldName) == worldName \in { <<>>, <<" "," ">> }
NonString(worldName) == worldName \in { Null, AnObject }

\* C29: for a blank or non-string name searchWorld returns a failure and
\* sends no request; for every other name the authentication check is its
\* first request and the world search, if it is sent, the second; when the
\* check reports unauthenticated the result is needsAuth and no world search
\* is sent; every result has success = true exactly when it carries a worldId
C29_RequestOrder ==
    call.fn = "searchWorld" =>
        /\ call.requests \in { <<>>, <<"auth">>, <<"auth", "worlds">> }
        /\ Blank(call.worldName) \/ NonString(call.worldName) =>
              /\ call.requests = <<>>
              /\ Returned => (/\ ~call.result.success /\ call.result.error
                              /\ ~call.result.needsAuth)
        /\ ~(Blank(call.worldName) \/ NonString(call.worldName)) =>
              (call.pc # "received" => call.requests[1] = "auth")
        /\ Returned /\ call.auth \in {"notOk", "throws"} =>
              /\ call.requests = <<"auth">>
              /\ call.result.needsAuth /\ ~call.result.success
        /\ Returned /\ call.result.needsAuth => call.auth \in {"notOk", "throws"}
        /\ Returned => (call.result.success <=> ~Falsy(call.result.worldId))
        /\ Returned /\ call.result.success =>
              call.requests = <<"auth", "worlds">> /\ call.auth = "ok"

\* the authentication was answered not ok and searchWorld has returned
\* needsAuth without a world search
C29_Witness ==
    /\ call.fn = "searchWorld" /\ call.pc = "returned"
    /\ call.worldName = <<" ","P","a","r","k"," ">>
    /\ call.auth = "notOk" /\ call.requests = <<"auth">>
    /\ call.result.needsAuth /\ ~call.result.success


\* the posts with a world link, those with a name and those with an action
\* bar
WithId   == {2, 4, 9, 10}
WithName == {1, 2, 6, 9}
WithBar  == {1, 2, 4, 5}

\* the controls the claim gives a post under the flags
Composition(t, open, search) ==
    (IF open /\ (t \in WithId \/ t \in WithName) THEN <<"open">> ELSE <<>>)
    \o (IF search /\ t \in WithName THEN <<"search">> ELSE <<>>)

\* C22: for every combination of identifier found, name found, showOpenBtn,
\* showSearchBtn and action bar present, processTweet on a post with the
\* hashtag and without marker inserts one Control Group before the action
\* bar iff the bar exists and the group holds a control; the group holds an
\* open control iff showOpenBtn and an identifier or a name was found, then
\* a search control iff showSearchBtn and a name was found; the open control
\* carries the identifier if one was found and the name otherwise; nothing
\* is inserted otherwise
C22_Composition ==
    call.fn = "processTweet" =>
        LET t == call.input
            d == call.result
            controls == Composition(t, call.open, call.search)
            inserted == controls # <<>> /\ t \in WithBar
        IN  /\ t \in WithId <=> ~Falsy(Readings[t].foundWorldId)
            /\ t \in WithName <=> ~Falsy(Readings[t].worldName)
            /\ t \in WithBar <=> Templates[t].actionBar
            /\ d.marked[1]
            /\ Kinds(d.group[1]) = IF inserted THEN <<controls>> ELSE <<>>
            /\ ~inserted => d.btn = btn
            /\ inserted /\ controls[1] = "open" =>
                  LET x == d.btn[d.group[1][1][1].b]
                  IN  IF t \in WithId
                      THEN x.worldId = SampleWorldId
                      ELSE x.worldId = Null /\ x.worldName = <<"P","a","r","k">>
            /\ inserted /\ controls[Len(controls)] = "search" =>
                  d.group[1][1][Len(controls)].worldName = <<"P","a","r","k">>

\* a post with a world link, no name and an action bar was processed with
\* both flags true: its group holds the open control alone
C22_Witness ==
    /\ call.fn = "processTweet" /\ call.input = 4
    /\ call.open /\ call.search
    /\ Kinds(call.result.group[1]) = << <<"open">> >>
    /\ call.result.btn[1].worldId = SampleWorldId


\* the step runs processTweet on a post without marker, in the scan of init
\* or in a debounced scan
Processes(p) == post[p] # 0 /\ ~marked[p] /\ marked'[p] /\ ~HandlesUpdate

\* the posts that leave processTweet early: no text container, no hashtag, no
\* name and no world link
ExitsEarly == {7} \cup {3} \cup {5, 11}

\* the groups of post p are those it had, or those and one more at their end
AtMostOneMore(p) ==
    \/ group'[p] = group[p]
    \/ /\ Len(group'[p]) = Len(group[p]) + 1
       /\ SubSeq(group'[p], 1, Len(group[p])) = group[p]

\* C23: a step in which processTweet runs changes nothing of the document
\* but markers and Control Groups: the posts show what they showed; a post
\* that is processed gets its marker and at most one Control Group, after
\* those it holds; a post that leaves processTweet early - no text container,
\* no hashtag, no reference, a control already there - gets the marker only;
\* a post that had its marker, and every control in the document, is left as
\* it was
C23_MarkerAndGroupOnly ==
    [][(\E q \in Posts : Processes(q)) =>
          /\ post' = post
          /\ \A p \in Posts :
                /\ Processes(p) => AtMostOneMore(p)
                /\ Processes(p) /\ (post[p] \in ExitsEarly \/ HasButton(group[p]))
                      => group'[p] = group[p]
                /\ ~Processes(p) => marked'[p] = marked[p] /\ group'[p] = group[p]
          /\ \A b \in AttachedIn(group) : btn'[b] = btn[b]]_vars

\* a scan has processed a post without the hashtag, which got the marker
\* only, and a post with the hashtag and a name, which got a Control Group
C23_Witness ==
    /\ initRead.st = "done" /\ scanReads = <<>> /\ msgs = <<>>
    /\ post[1] = 3 /\ marked[1] /\ group[1] = <<>>
    /\ post[2] = 1 /\ marked[2] /\ Len(group[2]) = 1


\* the posts that do not qualify when they are evaluated: the text
\* container, the hashtag, the reference or the action bar is missing
Unqualified == {7} \cup {3} \cup {5} \cup {6}

\* the step leaves post p in the document and is no settings update
SameEpoch(p) == post[p] # 0 /\ post'[p] # 0 /\ ~HandlesUpdate

\* a marked post without a Control Group stays so within the epoch, and a
\* post that does not qualify is one after its evaluation
C24_Kept ==
    \A p \in Posts :
        marked[p] /\ group[p] = <<>> /\ SameEpoch(p) =>
            marked'[p] /\ group'[p] = <<>>
C24_Evaluated ==
    \A p \in Posts :
        Processes(p) /\ post[p] \in Unqualified => marked'[p] /\ group'[p] = <<>>
\* C24: a post that has its marker and no Control Group keeps the marker and
\* gets no Control Group from any step - a scan, or the host inserting the
\* content that was missing - as long as it is in the document and no
\* settings update is handled; a post that is evaluated while it does not
\* qualify is such a post afterwards
C24_NoSecondChance == [][C24_Kept /\ C24_Evaluated]_vars

\* the host has inserted what post 1 was missing after the post was
\* evaluated, and the debounced scan that followed has run: the post shows a
\* name and an action bar, has its marker and no Control Group, while the
\* open control is switched on
C24_Witness ==
    /\ initRead.st = "done" /\ observers > 0
    /\ debounceTimerId = "fired" /\ scanReads = <<>> /\ msgs = <<>>
    /\ isExtensionEnabled /\ showOpenBtn
    /\ post[1] = 1 /\ marked[1] /\ group[1] = <<>>
    /\ post[2] = 1 /\ marked[2] /\ group[2] # <<>>


\* pattern k matches text and its capture is empty after the cleanup
Emptied(text, k) == Matches(text, k) /\ ~Usable(text, k)

\* World: with a globe alone, or a hashtag alone, and a second form on the
\* next line
GlobeThenBeta == NameForms[5] \o <<"\n">> \o NameForms[3]
TagThenGamma  == NameForms[6] \o <<"\n">> \o NameForms[2]

\* C25: when a pattern matches and its capture is empty after the cleanup,
\* extractWorldName goes on to the later patterns: it returns the cleaned
\* capture of the next pattern whose cleaned capture is not empty; it
\* returns null exactly when no pattern gives a non-empty cleaned capture,
\* and it never returns the empty string.  World: with a globe alone and,
\* on the next line, a globe and Beta yields Beta
C25_FallThrough ==
    call.fn = "extractWorldName" =>
        /\ call.result # <<>>
        /\ call.result = Null <=> \A k \in PatternIds : ~Usable(call.text, k)
        /\ \A k \in PatternIds :
              Emptied(call.text, k) /\ (\A i \in 1..(k - 1) : ~Usable(call.text, i)) =>
                  \A j \in (k + 1)..Len(WORLD_PATTERNS) :
                      ( /\ Usable(call.text, j)
                        /\ \A i \in (k + 1)..(j - 1) : ~Usable(call.text, i) )
                      => call.result = CleanName(Capture(call.text, j))
        /\ call.text = GlobeThenBeta => call.result = <<"B","e","t","a">>
        /\ call.text = TagThenGamma => call.result = <<"G","a","m","m","a">>
        /\ call.text \in {NameForms[5], NameForms[6]} => call.result = Null

\* the first pattern has matched World: with a globe alone, its capture was
\* empty after the cleanup, and the third pattern has given Beta
C25_Witness ==
    /\ call.fn = "extractWorldName"
    /\ call.text = GlobeThenBeta
    /\ Emptied(call.text, 1) /\ Usable(call.text, 3)
    /\ call.result = <<"B","e","t","a">>


\* the fields of the anchors in the order of the claim: anchor by anchor,
\* and of one anchor the target URL, the visible text, the title
FieldsOf(links) ==
    [n \in 1..(3 * Len(links)) |->
        LET a == links[(n + 2) \div 3]
        IN  CASE n % 3 = 1 -> a.href
              [] n % 3 = 2 -> a.textContent
              [] OTHER     -> a.title]
\* the identifier a field carries
Carried(f) ==
    IF f = WorldPageUrl(SampleWorldId) THEN SampleWorldId
    ELSE IF f = LaunchUrl(OtherWorldId) THEN OtherWorldId
    ELSE Null

\* C26: the loop over the anchors returns the identifier of the first field
\* that carries one, in the order anchor by anchor and, of one anchor,
\* target URL, visible text, title; it inspects no field after that one - an
\* SVG anchor after it, whose target URL is no string, raises nothing - and
\* it returns none when no field of any anchor carries an identifier
C26_FirstField ==
    call.fn = "findWorldId" =>
        LET fs == FieldsOf(call.input)
        IN  /\ \A n \in 1..Len(fs) :
                  ( /\ Carried(fs[n]) # Null
                    /\ \A i \in 1..(n - 1) : Carried(fs[i]) = Null )
                  => call.result = Carried(fs[n])
            /\ (\A n \in 1..Len(fs) : Carried(fs[n]) = Null) => call.result = Null
            /\ call.result # TypeError

\* the title of the first anchor and the target URL of the second carry
\* different identifiers: the loop has returned that of the title
C26_Witness ==
    /\ call.fn = "findWorldId"
    /\ call.input = << Anchor(PlainUrl, <<>>, WorldPageUrl(SampleWorldId)),
                       Anchor(LaunchUrl(OtherWorldId), <<>>, <<>>) >>
    /\ call.result = SampleWorldId


\* the observer observes exactly when init has ended, and there is one; the
\* flags are true as long as no settings were ever stored
C27_Once ==
    /\ observers = (IF initRead.st = "done" THEN 1 ELSE 0)
    /\ stored = Untouched => isExtensionEnabled /\ showOpenBtn /\ showSearchBtn

\* the end of init installs the observer, whatever the read has given; after
\* a read that failed it scans nothing and leaves the flags as they are
C27_AtTheEnd ==
    InitEnds =>
        /\ observers = 0 /\ observers' = 1
        /\ initRead.st = "failed" =>
              /\ flagVars' = flagVars
              /\ marked' = marked /\ group' = group /\ btn' = btn

\* C27 (as claimed): when init completes the MutationObserver is installed
\* exactly once, whether the settings read has succeeded or failed and
\* whether the extension is enabled or not; when the read has failed no scan
\* runs and the three flags are true afterwards
C27_AsClaimed ==
    [][InitEnds =>
          /\ observers = 0 /\ observers' = 1
          /\ initRead.st = "failed" =>
                /\ isExtensionEnabled' /\ showOpenBtn' /\ showSearchBtn'
                /\ marked' = marked /\ group' = group]_vars

\* C27 (amended): when init completes the MutationObserver is installed
\* exactly once, whether the settings read has succeeded or failed and
\* whether the extension is enabled or not; when the read has failed no scan
\* runs and init leaves the flags as they are: all true, the defaults, if
\* no settings were ever stored, and otherwise what a settings update that
\* was handled before the end of init has made them
C27_WatcherInstalled == []C27_Once /\ [][C27_AtTheEnd]_vars

\* init has ended after a read that failed: the observer observes, the
\* flags are true and the qualifying post of the document is not processed
C27_Witness ==
    /\ initRead.st = "done" /\ observers = 1
    /\ stored = Untouched
    /\ isExtensionEnabled /\ showOpenBtn /\ showSearchBtn
    /\ post[1] = 1 /\ ~marked[1] /\ group[1] = <<>>
    /\ debounceTimerId = "null" /\ scanReads = <<>>


\* the host changes the posts of the document
HostStep == post' # post
\* no timer is pending and no scan is under way
Settled ==
    /\ initRead.st = "done"
    /\ debounceTimerId # "pending" /\ strayTimers = 0
    /\ scanReads = <<>>

\* a debounced scan that inserts a Control Group starts the debounce timer
C28_SelfTriggered ==
    (\E i \in 1..Len(scanReads) : scanReads' = RemoveAt(scanReads, i))
    /\ group' # group
        => debounceTimerId' = "pending"
\* a debounced scan of a document whose posts all have their marker inserts
\* nothing and starts no timer
C28_FollowUp ==
    (\E i \in 1..Len(scanReads) : scanReads' = RemoveAt(scanReads, i))
    /\ AllProcessed
        => /\ group' = group /\ marked' = marked /\ btn' = btn
           /\ debounceVars' = debounceVars
\* a debounced scan that inserts a Control Group leaves every post of the
\* document marked
C28_AllMarked ==
    (\E i \in 1..Len(scanReads) : scanReads' = RemoveAt(scanReads, i))
    /\ group' # group
        => AllProcessed'

\* C28: the Control Groups a debounced scan inserts start the debounce
\* timer; the scan that follows finds every post marked, inserts nothing and
\* starts no timer; so when the host stops changing the document, and no
\* settings update arrives, the system comes to rest with no timer pending
\* and no scan under way, and stays there
C28_Quiesces ==
    /\ [][C28_SelfTriggered /\ C28_AllMarked /\ C28_FollowUp]_vars
    /\ (<>[][~HostStep]_vars) => <>[]Settled

\* the scan that followed the insertion of a Control Group has run: the
\* debounce timer has fired, no scan is under way, and the post that was
\* added after init holds its group
C28_Witness ==
    /\ Settled /\ observers = 1 /\ debounceTimerId = "fired"
    /\ post[1] = 4 /\ marked[1] /\ Len(group[1]) = 1
    /\ post[2] = 0
    /\ isExtensionEnabled

=============================================================================
